---- MODULE Spec2Model ----
(***************************************************************************)
(* A model of the regex compiler pipeline: the automaton data model (DFA,  *)
(* NFA, EpsNFA) with its constructor checks, the Thompson steps, epsilon   *)
(* elimination, the subset construction, word acceptance and the           *)
(* automaton-spec parser.  Definitions keep the names of the Python code.  *)
(*                                                                         *)
(* A State label is a sequence of characters (one-character strings), so   *)
(* that f"{base}{counter}" and "{" + ",".join(sorted(...)) + "}" are       *)
(* computed on text as the code computes them.  A Symbol is a string.      *)
(* A Python dict is a TLA+ function whose DOMAIN is the set of its keys.   *)
(***************************************************************************)
EXTENDS Integers, Sequences, FiniteSets, TLC

(***************************************************************************)
(* Bounds of the model.                                                    *)
(***************************************************************************)
\* the number of EpsNFA objects one session builds by Thompson steps
MaxPool == 3
\* the longest word given to accepts
MaxWordLen == 3
\* the number of automata one session builds by calling a constructor itself
MaxHand == 1
\* the number of dict entries (transitions and epsilon transitions together)
\* given to such a constructor call
MaxHandEntries == 2
\* the number of transition statements one automaton spec holds
MaxTransStmts == 2
\* the tokens of a regex given to parse_regex, the end marker not counted
MaxRegexTokens == 5
\* the characters of a source text given to lex_regex
MaxSourceLen == 4

\* the symbols regexes and words are written over
Symbols == {"a", "b"}

(***************************************************************************)
(* Text: characters, their order, labels.                                  *)
(***************************************************************************)
\* the characters labels are made of, in code point order (str comparison)
CharOrder ==
    << ",", "-", "0", "1", "2", "3", "4", "5", "6", "7", "8", "9", "_",
       "a", "b", "c", "d", "e", "f", "g", "h", "i", "j", "k", "l", "m",
       "n", "o", "p", "q", "r", "s", "t", "u", "v", "w", "x", "y", "z",
       "{", "}" >>

Ord(c) == CHOOSE i \in 1..Len(CharOrder) : CharOrder[i] = c

\* Python's str "<": lexicographic by code point, a proper prefix first
RECURSIVE StrLess(_, _)
StrLess(x, y) ==
    IF y = << >> THEN FALSE
    ELSE IF x = << >> THEN TRUE
    ELSE IF Head(x) # Head(y) THEN Ord(Head(x)) < Ord(Head(y))
    ELSE StrLess(Tail(x), Tail(y))

\* sorted(S) for a set of labels
RECURSIVE Sorted(_)
Sorted(S) ==
    IF S = {} THEN << >>
    ELSE LET m == CHOOSE x \in S : \A y \in S \ {x} : StrLess(x, y)
         IN  << m >> \o Sorted(S \ {m})

\* sep.join(seq) for a sequence of labels
RECURSIVE Join(_, _)
Join(sep, seq) ==
    IF seq = << >> THEN << >>
    ELSE IF Len(seq) = 1 THEN seq[1]
    ELSE seq[1] \o sep \o Join(sep, Tail(seq))

\* str(n) for n >= 0
RECURSIVE Digits(_)
Digits(n) ==
    LET d == << "0", "1", "2", "3", "4", "5", "6", "7", "8", "9" >>
    IN  IF n < 10 THEN << d[n + 1] >>
        ELSE Digits(n \div 10) \o << d[(n % 10) + 1] >>

\* One order in which a Python set or frozenset is iterated.  The language
\* leaves the order unspecified.  Where the order shows in a result, in the
\* labels _rename_states hands out, the caller of the step draws it from Orders;
\* the loops over an alphabet and the stacks of _eps_closure and convert_to_dfa
\* build the same sets and dicts in every order.
RECURSIVE Iter(_)
Iter(S) ==
    IF S = {} THEN << >>
    ELSE LET x == CHOOSE y \in S : TRUE IN << x >> \o Iter(S \ {x})

Reverse(seq) == [k \in 1..Len(seq) |-> seq[Len(seq) + 1 - k]]

\* the orders a step iterates the states of its operands in
Orders == {"forward", "backward"}
IterIn(order, S) == IF order = "forward" THEN Iter(S) ELSE Reverse(Iter(S))

(***************************************************************************)
(* Dicts.                                                                  *)
(***************************************************************************)
EmptyDict == << >>

\* d.get(k, default)
Get(d, k, default) == IF k \in DOMAIN d THEN d[k] ELSE default

\* d1 | d2 and {**d1, **d2}: the right operand wins on a shared key
DictMerge(d1, d2) ==
    [k \in DOMAIN d1 \cup DOMAIN d2 |-> IF k \in DOMAIN d2 THEN d2[k] ELSE d1[k]]

\* set(d.values())
Values(d) == {d[k] : k \in DOMAIN d}

(***************************************************************************)
(* The automaton data model: FSM.__init__ and EpsNFA.__init__.             *)
(* A constructor call yields [raised |-> "none", fsm |-> ...] or           *)
(* [raised |-> "FSMError", check |-> n] with n the check that failed.      *)
(***************************************************************************)
Raise(what, n) == [raised |-> what, check |-> n]
Return(fsm) == [raised |-> "none", fsm |-> fsm]

\* the states a transition value names: `val if isinstance(val, set) else {val}`
TargetsOf(kind, val) == IF kind = "DFA" THEN {val} ELSE val

\* FSMCheck without the check of the transition targets
FSMCheck_no_targets(kind, states, alphabet, initial_state, accepting_states, transitions) ==
    IF initial_state \notin states THEN 1
    ELSE IF accepting_states \ states # {} THEN 2
    ELSE IF {key[1] : key \in DOMAIN transitions} \ states # {} THEN 3
    ELSE IF {key[2] : key \in DOMAIN transitions} \ alphabet # {} THEN 4
    ELSE 0

\* the first failing check of FSM.__init__, 0 when all pass
FSMCheck(kind, states, alphabet, initial_state, accepting_states, transitions) ==
    IF initial_state \notin states THEN 1
    ELSE IF accepting_states \ states # {} THEN 2
    ELSE IF {key[1] : key \in DOMAIN transitions} \ states # {} THEN 3
    ELSE IF {key[2] : key \in DOMAIN transitions} \ alphabet # {} THEN 4
    ELSE IF UNION {TargetsOf(kind, transitions[key]) : key \in DOMAIN transitions}
              \ states # {} THEN 5
    ELSE 0

\* the first failing check of EpsNFA.__init__ after super().__init__, 0 when all pass
EpsCheck(states, eps_transitions) ==
    IF DOMAIN eps_transitions \ states # {} THEN 6
    ELSE IF UNION {eps_transitions[key] : key \in DOMAIN eps_transitions}
              \ states # {} THEN 7
    ELSE 0

FSM(kind, states, alphabet, initial_state, accepting_states, transitions) ==
    LET failed == FSMCheck(kind, states, alphabet, initial_state,
                           accepting_states, transitions)
    IN  IF failed # 0 THEN Raise("FSMError", failed)
        ELSE Return([kind |-> kind,
                     STATES |-> states,
                     ALPHABET |-> alphabet,
                     INITIAL_STATE |-> initial_state,
                     ACCEPTING_STATES |-> accepting_states,
                     TRANSITIONS |-> transitions])

DFA(states, alphabet, initial_state, accepting_states, transitions) ==
    FSM("DFA", states, alphabet, initial_state, accepting_states, transitions)

NFA(states, alphabet, initial_state, accepting_states, transitions) ==
    FSM("NFA", states, alphabet, initial_state, accepting_states, transitions)

EpsNFA(states, alphabet, initial_state, accepting_states, transitions, eps_transitions) ==
    LET base == FSM("EpsNFA", states, alphabet, initial_state,
                    accepting_states, transitions)
        failed == EpsCheck(states, eps_transitions)
    IN  IF base.raised # "none" THEN base
        ELSE IF failed # 0 THEN Raise("FSMError", failed)
        ELSE Return([kind |-> "EpsNFA",
                     STATES |-> states,
                     ALPHABET |-> alphabet,
                     INITIAL_STATE |-> initial_state,
                     ACCEPTING_STATES |-> accepting_states,
                     TRANSITIONS |-> transitions,
                     EPS_TRANSITIONS |-> eps_transitions])

(***************************************************************************)
(* Acceptance (fsm.py).  A call yields [raised |-> "none", value |-> b] or *)
(* [raised |-> "KeyError"].                                               *)
(***************************************************************************)
\* DFA._delta: self.TRANSITIONS[(state, symbol)], a KeyError on a missing key
DFA_delta_stay(fsm, state, symbol) ==
    [raised |-> "none", value |-> Get(fsm.TRANSITIONS, << state, symbol >>, state)]

DFA_delta(fsm, state, symbol) ==
    IF << state, symbol >> \in DOMAIN fsm.TRANSITIONS
    THEN [raised |-> "none", value |-> fsm.TRANSITIONS[<< state, symbol >>]]
    ELSE [raised |-> "KeyError"]

\* reduce(self._delta, word, state)
RECURSIVE DFA_reduce(_, _, _)
DFA_reduce(fsm, state, word) ==
    IF word = << >> THEN [raised |-> "none", value |-> state]
    ELSE LET step == DFA_delta(fsm, state, Head(word))
         IN  IF step.raised # "none" THEN step
             ELSE DFA_reduce(fsm, step.value, Tail(word))

DFA_accepts(fsm, word) ==
    LET final == DFA_reduce(fsm, fsm.INITIAL_STATE, word)
    IN  IF final.raised # "none" THEN final
        ELSE [raised |-> "none", value |-> final.value \in fsm.ACCEPTING_STATES]

\* NFA._delta: self.TRANSITIONS.get((state, symbol), set())
NFA_delta(fsm, state, symbol) == Get(fsm.TRANSITIONS, << state, symbol >>, {})

NFA_get_initial_state_set(fsm) == {fsm.INITIAL_STATE}

NFA_next_states(fsm, states, symbol) ==
    UNION {NFA_delta(fsm, state, symbol) : state \in states}

\* reduce(self._next_states, word, states) of NFA
RECURSIVE NFA_reduce(_, _, _)
NFA_reduce(fsm, states, word) ==
    IF word = << >> THEN states
    ELSE NFA_reduce(fsm, NFA_next_states(fsm, states, Head(word)), Tail(word))

NFA_accepts(fsm, word) ==
    [raised |-> "none",
     value |-> fsm.ACCEPTING_STATES
                 \cap NFA_reduce(fsm, NFA_get_initial_state_set(fsm), word) # {}]

\* EpsNFA._eps_delta: self.EPS_TRANSITIONS.get(state, set())
eps_delta(fsm, state) == Get(fsm.EPS_TRANSITIONS, state, {})

\* the while loop of EpsNFA._eps_closure: pop a state, add and push each
\* epsilon successor that is not in the closure yet
RECURSIVE eps_closure_loop(_, _, _)
eps_closure_loop_one_step(fsm, closure, stack) ==
    IF stack = << >> THEN closure
    ELSE LET state == stack[Len(stack)]
             rest == SubSeq(stack, 1, Len(stack) - 1)
             new == eps_delta(fsm, state) \ closure
         IN  eps_closure_loop(fsm, closure \cup new, rest)

eps_closure_loop(fsm, closure, stack) ==
    IF stack = << >> THEN closure
    ELSE LET state == stack[Len(stack)]
             rest == SubSeq(stack, 1, Len(stack) - 1)
             new == eps_delta(fsm, state) \ closure
         IN  eps_closure_loop(fsm, closure \cup new, rest \o Iter(new))

eps_closure(fsm, states) == eps_closure_loop(fsm, states, Iter(states))

EpsNFA_get_initial_state_set(fsm) ==
    eps_closure(fsm, NFA_get_initial_state_set(fsm))

\* EpsNFA._next_states without the epsilon closure of the targets
EpsNFA_next_states_unclosed(fsm, states, symbol) ==
    UNION {NFA_delta(fsm, state, symbol) : state \in eps_closure(fsm, states)}

EpsNFA_next_states(fsm, states, symbol) ==
    eps_closure(fsm, UNION {NFA_delta(fsm, state, symbol) :
                              state \in eps_closure(fsm, states)})

\* reduce(self._next_states, word, states) of EpsNFA
RECURSIVE EpsNFA_reduce(_, _, _)
EpsNFA_reduce(fsm, states, word) ==
    IF word = << >> THEN states
    ELSE EpsNFA_reduce(fsm, EpsNFA_next_states(fsm, states, Head(word)), Tail(word))

EpsNFA_accepts(fsm, word) ==
    [raised |-> "none",
     value |-> fsm.ACCEPTING_STATES
                 \cap EpsNFA_reduce(fsm, EpsNFA_get_initial_state_set(fsm), word) # {}]

\* fsm.accepts(word), dispatched on the class of fsm
accepts(fsm, word) ==
    IF fsm.kind = "DFA" THEN DFA_accepts(fsm, word)
    ELSE IF fsm.kind = "NFA" THEN NFA_accepts(fsm, word)
    ELSE EpsNFA_accepts(fsm, word)

(***************************************************************************)
(* Fresh states and the Thompson steps (fsm.py, class EpsNFA).  A step     *)
(* takes the value c of EpsNFA._id_counter and yields the constructor's    *)
(* result `out`, the counter after the step, the renamed operands and new  *)
(* state it worked with, its arguments as they are when it returns         *)
(* (`inputs`), and the automata whose dict or set objects the result holds *)
(* (`borrows`).                                                            *)
(***************************************************************************)
P_symbol == << "s", "y", "m", "b", "o", "l" >>
P_star == << "s", "t", "a", "r" >>
P_concat_lhs == << "c", "o", "n", "c", "a", "t", "_", "l", "h", "s" >>
P_concat_rhs == << "c", "o", "n", "c", "a", "t", "_", "r", "h", "s" >>
P_union_lhs == << "u", "n", "i", "o", "n", "_", "l", "h", "s" >>
P_union_rhs == << "u", "n", "i", "o", "n", "_", "r", "h", "s" >>
P_union == << "u", "n", "i", "o", "n" >>

\* _fresh_state that does not store the incremented counter
fresh_state_stale(base, c) == [counter |-> c, state |-> base \o Digits(c + 1)]

\* EpsNFA._fresh_state: cls._id_counter += 1; State(f"{base}{cls._id_counter}")
fresh_state(base, c) == [counter |-> c + 1, state |-> base \o Digits(c + 1)]

\* {s: cls._fresh_state(prefix) for s in nfa.STATES}, one state after the other
RECURSIVE fresh_mapping(_, _, _, _)
fresh_mapping(seq, prefix, c, mapping) ==
    IF seq = << >> THEN [mapping |-> mapping, counter |-> c]
    ELSE LET f == fresh_state(prefix, c)
         IN  fresh_mapping(Tail(seq), prefix, f.counter,
                           DictMerge(mapping, Head(seq) :> f.state))

\* EpsNFA._rename_states
rename_states(nfa, prefix, c, order) ==
    LET m == fresh_mapping(IterIn(order, nfa.STATES), prefix, c, EmptyDict)
        mapping == m.mapping
        T == nfa.TRANSITIONS
        E == nfa.EPS_TRANSITIONS
        newKey(key) == << mapping[key[1]], key[2] >>
        \* a dict comprehension keeps the last value written under a key
        new_transitions ==
            [k \in {newKey(key) : key \in DOMAIN T} |->
                LET key == CHOOSE x \in DOMAIN T : newKey(x) = k
                IN  {mapping[t] : t \in T[key]}]
        new_eps_transitions ==
            [k \in {mapping[s] : s \in DOMAIN E} |->
                LET s == CHOOSE x \in DOMAIN E : mapping[x] = k
                IN  {mapping[t] : t \in E[s]}]
    IN  [mapping |-> mapping,
         counter |-> m.counter,
         out |-> EpsNFA(Values(mapping),
                        nfa.ALPHABET,
                        mapping[nfa.INITIAL_STATE],
                        {mapping[s] : s \in nfa.ACCEPTING_STATES},
                        new_transitions,
                        new_eps_transitions)]

\* from_symbol that restarts the counter
from_symbol_restart(symbol, c) ==
    LET i == fresh_state(P_symbol, 0)
        a == fresh_state(P_symbol, i.counter)
    IN  [counter |-> a.counter,
         inputs |-> << >>,
         borrows |-> {},
         out |-> EpsNFA({i.state, a.state}, {symbol}, i.state, {a.state},
                        << i.state, symbol >> :> {a.state}, EmptyDict)]

\* EpsNFA.from_symbol
from_symbol(symbol, c) ==
    LET i == fresh_state(P_symbol, c)
        a == fresh_state(P_symbol, i.counter)
        initial_state == i.state
        accepting_state == a.state
    IN  [counter |-> a.counter,
         inputs |-> << >>,
         borrows |-> {},
         out |-> EpsNFA({initial_state, accepting_state}, {symbol}, initial_state,
                        {accepting_state},
                        << initial_state, symbol >> :> {accepting_state},
                        EmptyDict)]

\* star that renames the states of its operand in place
star_in_place(operand0, c, order) ==
    LET r == rename_states(operand0, P_star, c, order)
        operand == r.out.fsm
        f == fresh_state(P_star, r.counter)
        initial_state == f.state
        E == operand.EPS_TRANSITIONS
        eps == DictMerge(
                 DictMerge([s \in DOMAIN E |-> E[s] \cup {initial_state}],
                           [s \in operand.ACCEPTING_STATES |-> {initial_state}]),
                 initial_state :> {operand.INITIAL_STATE})
    IN  [counter |-> f.counter,
         inputs |-> << operand >>,
         operands |-> << operand >>,
         new_state |-> << initial_state >>,
         borrows |-> {operand},
         out |-> EpsNFA({initial_state} \cup operand.STATES,
                        operand.ALPHABET,
                        initial_state,
                        {initial_state},
                        operand.TRANSITIONS,
                        eps)]

\* EpsNFA.star
star(operand0, c, order) ==
    LET r == rename_states(operand0, P_star, c, order)
        operand == r.out.fsm
        f == fresh_state(P_star, r.counter)
        initial_state == f.state
        E == operand.EPS_TRANSITIONS
        eps == DictMerge(
                 DictMerge([s \in DOMAIN E |-> E[s] \cup {initial_state}],
                           [s \in operand.ACCEPTING_STATES |-> {initial_state}]),
                 initial_state :> {operand.INITIAL_STATE})
    IN  [counter |-> f.counter,
         inputs |-> << operand0 >>,
         operands |-> << operand >>,
         new_state |-> << initial_state >>,
         \* TRANSITIONS is the dict of the renamed operand
         borrows |-> {operand},
         out |-> EpsNFA({initial_state} \cup operand.STATES,
                        operand.ALPHABET,
                        initial_state,
                        {initial_state},
                        operand.TRANSITIONS,
                        eps)]

\* EpsNFA.concat with the dict of star: the edge of an accepting state replaces
\* the edges it has
concat_overwrite(lhs0, rhs0, c, order) ==
    LET l == rename_states(lhs0, P_concat_lhs, c, order)
        lhs == l.out.fsm
        r == rename_states(rhs0, P_concat_rhs, l.counter, order)
        rhs == r.out.fsm
        keys == lhs.ACCEPTING_STATES \cup DOMAIN lhs.EPS_TRANSITIONS
                  \cup DOMAIN rhs.EPS_TRANSITIONS
        merge_eps(s) ==
            IF s \in lhs.ACCEPTING_STATES THEN {rhs.INITIAL_STATE}
            ELSE Get(lhs.EPS_TRANSITIONS, s, {}) \cup Get(rhs.EPS_TRANSITIONS, s, {})
        new_eps == [s \in keys |-> merge_eps(s)]
    IN  [counter |-> r.counter,
         inputs |-> << lhs0, rhs0 >>,
         operands |-> << lhs, rhs >>,
         new_state |-> << >>,
         \* the merged TRANSITIONS holds the sets of the renamed operands
         borrows |-> {lhs, rhs},
         out |-> EpsNFA(lhs.STATES \cup rhs.STATES,
                        lhs.ALPHABET \cup rhs.ALPHABET,
                        lhs.INITIAL_STATE,
                        rhs.ACCEPTING_STATES,
                        DictMerge(lhs.TRANSITIONS, rhs.TRANSITIONS),
                        new_eps)]

\* EpsNFA.concat
concat(lhs0, rhs0, c, order) ==
    LET l == rename_states(lhs0, P_concat_lhs, c, order)
        lhs == l.out.fsm
        r == rename_states(rhs0, P_concat_rhs, l.counter, order)
        rhs == r.out.fsm
        keys == lhs.ACCEPTING_STATES \cup DOMAIN lhs.EPS_TRANSITIONS
                  \cup DOMAIN rhs.EPS_TRANSITIONS
        merge_eps(s) ==
            (IF s \in lhs.ACCEPTING_STATES THEN {rhs.INITIAL_STATE} ELSE {})
              \cup Get(lhs.EPS_TRANSITIONS, s, {})
              \cup Get(rhs.EPS_TRANSITIONS, s, {})
        new_eps == [s \in keys |-> merge_eps(s)]
    IN  [counter |-> r.counter,
         inputs |-> << lhs0, rhs0 >>,
         operands |-> << lhs, rhs >>,
         new_state |-> << >>,
         \* the merged TRANSITIONS holds the sets of the renamed operands
         borrows |-> {lhs, rhs},
         out |-> EpsNFA(lhs.STATES \cup rhs.STATES,
                        lhs.ALPHABET \cup rhs.ALPHABET,
                        lhs.INITIAL_STATE,
                        rhs.ACCEPTING_STATES,
                        DictMerge(lhs.TRANSITIONS, rhs.TRANSITIONS),
                        new_eps)]

\* EpsNFA.union
union(lhs0, rhs0, c, order) ==
    LET l == rename_states(lhs0, P_union_lhs, c, order)
        lhs == l.out.fsm
        r == rename_states(rhs0, P_union_rhs, l.counter, order)
        rhs == r.out.fsm
        f == fresh_state(P_union, r.counter)
        initial_state == f.state
    IN  [counter |-> f.counter,
         inputs |-> << lhs0, rhs0 >>,
         operands |-> << lhs, rhs >>,
         new_state |-> << initial_state >>,
         \* the merged dicts hold the sets of the renamed operands
         borrows |-> {lhs, rhs},
         out |-> EpsNFA({initial_state} \cup lhs.STATES \cup rhs.STATES,
                        lhs.ALPHABET \cup rhs.ALPHABET,
                        initial_state,
                        lhs.ACCEPTING_STATES \cup rhs.ACCEPTING_STATES,
                        DictMerge(lhs.TRANSITIONS, rhs.TRANSITIONS),
                        DictMerge(
                          DictMerge(initial_state :>
                                      {lhs.INITIAL_STATE, rhs.INITIAL_STATE},
                                    lhs.EPS_TRANSITIONS),
                          rhs.EPS_TRANSITIONS))]

(***************************************************************************)
(* The regex AST (regex/ast.py) and regex_to_epsnfa (regex/to_epsnfa.py).  *)
(* A node carries the class it is an instance of.                          *)
(***************************************************************************)
SymbolNode(value) == [class |-> "ast.Symbol", value |-> value]
\* Star.value is named `inner` here: TLC cannot compare it with Symbol.value
StarNode(inner) == [class |-> "ast.Star", inner |-> inner]
ConcatNode(lhs, rhs) == [class |-> "ast.Concat", lhs |-> lhs, rhs |-> rhs]
OrNode(lhs, rhs) == [class |-> "ast.Or", lhs |-> lhs, rhs |-> rhs]

isinstance(obj, class) == obj.class = class

\* no tree: the regex of an automaton that was not built from one
NoExpr == [class |-> "none"]

\* What the name Symbol stands for inside to_epsnfa.py: line 1 imports it from
\* .ast, line 3 imports it again from common.typedef, and the later import
\* rebinds the name to the label type.
to_epsnfa_Symbol == "typedef.Symbol"

RECURSIVE regex_to_epsnfa(_, _, _)
regex_to_epsnfa(expr, c, order) ==
    IF isinstance(expr, to_epsnfa_Symbol) THEN from_symbol(expr.value, c)
    ELSE IF isinstance(expr, "ast.Star") THEN
        LET v == regex_to_epsnfa(expr.inner, c, order)
        IN  IF v.out.raised # "none" THEN v ELSE star(v.out.fsm, v.counter, order)
    ELSE IF isinstance(expr, "ast.Concat") THEN
        LET l == regex_to_epsnfa(expr.lhs, c, order)
        IN  IF l.out.raised # "none" THEN l
            ELSE LET r == regex_to_epsnfa(expr.rhs, l.counter, order)
                 IN  IF r.out.raised # "none" THEN r
                     ELSE concat(l.out.fsm, r.out.fsm, r.counter, order)
    ELSE IF isinstance(expr, "ast.Or") THEN
        LET l == regex_to_epsnfa(expr.lhs, c, order)
        IN  IF l.out.raised # "none" THEN l
            ELSE LET r == regex_to_epsnfa(expr.rhs, l.counter, order)
                 IN  IF r.out.raised # "none" THEN r
                     ELSE union(l.out.fsm, r.out.fsm, r.counter, order)
    ELSE [counter |-> c, inputs |-> << >>, borrows |-> {},
          out |-> Raise("TypeError", 0)]

(***************************************************************************)
(* The conversions (automaton/convert.py).                                 *)
(***************************************************************************)
\* convert_to_nfa that stores the reachable set without its epsilon closure
convert_to_nfa_unclosed(eps_nfa) ==
    LET closures == [state \in eps_nfa.STATES |-> eps_closure(eps_nfa, {state})]
        accepting_states ==
            {state \in eps_nfa.STATES :
                closures[state] \cap eps_nfa.ACCEPTING_STATES # {}}
        reachable(state, symbol) ==
            UNION {NFA_delta(eps_nfa, closure_state, symbol) :
                     closure_state \in closures[state]}
        keys == {key \in eps_nfa.STATES \X eps_nfa.ALPHABET :
                    reachable(key[1], key[2]) # {}}
        transitions == [key \in keys |-> reachable(key[1], key[2])]
    IN  NFA(eps_nfa.STATES, eps_nfa.ALPHABET, eps_nfa.INITIAL_STATE,
            accepting_states, transitions)

\* convert_to_nfa that looks one epsilon edge ahead for an accepting state
convert_to_nfa_one_edge(eps_nfa) ==
    LET closures == [state \in eps_nfa.STATES |-> eps_closure(eps_nfa, {state})]
        accepting_states ==
            {state \in eps_nfa.STATES :
                ({state} \cup eps_delta(eps_nfa, state))
                    \cap eps_nfa.ACCEPTING_STATES # {}}
        reachable(state, symbol) ==
            UNION {NFA_delta(eps_nfa, closure_state, symbol) :
                     closure_state \in closures[state]}
        keys == {key \in eps_nfa.STATES \X eps_nfa.ALPHABET :
                    reachable(key[1], key[2]) # {}}
        transitions ==
            [key \in keys |-> eps_closure(eps_nfa, reachable(key[1], key[2]))]
    IN  NFA(eps_nfa.STATES, eps_nfa.ALPHABET, eps_nfa.INITIAL_STATE,
            accepting_states, transitions)

\* convert_to_nfa that keeps the accepting states of its argument
convert_to_nfa_same_accepting(eps_nfa) ==
    LET closures == [state \in eps_nfa.STATES |-> eps_closure(eps_nfa, {state})]
        reachable(state, symbol) ==
            UNION {NFA_delta(eps_nfa, closure_state, symbol) :
                     closure_state \in closures[state]}
        keys == {key \in eps_nfa.STATES \X eps_nfa.ALPHABET :
                    reachable(key[1], key[2]) # {}}
        transitions ==
            [key \in keys |-> eps_closure(eps_nfa, reachable(key[1], key[2]))]
    IN  NFA(eps_nfa.STATES, eps_nfa.ALPHABET, eps_nfa.INITIAL_STATE,
            eps_nfa.ACCEPTING_STATES, transitions)

convert_to_nfa(eps_nfa) ==
    LET closures == [state \in eps_nfa.STATES |-> eps_closure(eps_nfa, {state})]
        accepting_states ==
            {state \in eps_nfa.STATES :
                closures[state] \cap eps_nfa.ACCEPTING_STATES # {}}
        reachable(state, symbol) ==
            UNION {NFA_delta(eps_nfa, closure_state, symbol) :
                     closure_state \in closures[state]}
        \* `if not reachable: continue` and `if closure_reachable:`
        keys == {key \in eps_nfa.STATES \X eps_nfa.ALPHABET :
                    /\ reachable(key[1], key[2]) # {}
                    /\ eps_closure(eps_nfa, reachable(key[1], key[2])) # {}}
        transitions ==
            [key \in keys |-> eps_closure(eps_nfa, reachable(key[1], key[2]))]
    IN  NFA(eps_nfa.STATES, eps_nfa.ALPHABET, eps_nfa.INITIAL_STATE,
            accepting_states, transitions)

\* convert_to_dfa.collapse_state
collapse_state(states) == << "{" >> \o Join(<< "," >>, Sorted(states)) \o << "}" >>

\* the body of `for symbol in nfa.ALPHABET` for the popped state_set, over the
\* locals st = [mapping, stack, transitions, accepting_states].  A label is
\* never empty, so `not mapping.get(new_set)` says that new_set is no key.
RECURSIVE dfa_for_symbols(_, _, _, _, _)
dfa_for_symbols(nfa, state_set, state, symbols, st) ==
    IF symbols = << >> THEN st
    ELSE LET symbol == Head(symbols)
             new_set == UNION {NFA_delta(nfa, p, symbol) : p \in state_set}
             unseen == new_set \notin DOMAIN st.mapping
             new_state == IF unseen THEN collapse_state(new_set)
                          ELSE st.mapping[new_set]
             st1 == IF ~unseen THEN st
                    ELSE [st EXCEPT
                            !.mapping = DictMerge(@, new_set :> new_state),
                            !.accepting_states =
                                IF new_set \cap nfa.ACCEPTING_STATES # {}
                                THEN @ \cup {new_state} ELSE @,
                            !.stack = Append(@, new_set)]
             st2 == [st1 EXCEPT !.transitions =
                                  DictMerge(@, << state, symbol >> :> new_state)]
         IN  dfa_for_symbols(nfa, state_set, state, Tail(symbols), st2)

\* `while stack:` of convert_to_dfa
RECURSIVE dfa_while(_, _)
dfa_while(nfa, st) ==
    IF st.stack = << >> THEN st
    ELSE LET state_set == st.stack[Len(st.stack)]
             popped == [st EXCEPT !.stack = SubSeq(@, 1, Len(@) - 1)]
             state == st.mapping[state_set]
         IN  dfa_while(nfa, dfa_for_symbols(nfa, state_set, state,
                                              Iter(nfa.ALPHABET), popped))

\* convert_to_dfa that records no transition into the empty successor set
convert_to_dfa_no_dead_state(nfa) ==
    LET initial_state_set == {nfa.INITIAL_STATE}
        st == dfa_while(nfa,
                [accepting_states |-> {},
                 transitions |-> EmptyDict,
                 mapping |-> initial_state_set :> collapse_state(initial_state_set),
                 stack |-> << initial_state_set >>])
        live == {set \in DOMAIN st.mapping : set # {}}
        kept == {key \in DOMAIN st.transitions :
                    /\ key[1] # collapse_state({})
                    /\ st.transitions[key] # collapse_state({})}
    IN  DFA({st.mapping[set] : set \in live}, nfa.ALPHABET,
            st.mapping[initial_state_set], st.accepting_states,
            [key \in kept |-> st.transitions[key]])

convert_to_dfa(nfa) ==
    LET initial_state_set == {nfa.INITIAL_STATE}
        st == dfa_while(nfa,
                [accepting_states |-> {},
                 transitions |-> EmptyDict,
                 mapping |-> initial_state_set :> collapse_state(initial_state_set),
                 stack |-> << initial_state_set >>])
    IN  DFA(Values(st.mapping), nfa.ALPHABET, st.mapping[initial_state_set],
            st.accepting_states, st.transitions)

(***************************************************************************)
(* A call of a conversion or of accepts: what it returns or raises, its    *)
(* argument as it is when the call returns, and the automata whose dict or *)
(* set objects the result holds.  The conversions build their dicts and    *)
(* sets anew and pass on frozensets only; accepts reads.                   *)
(***************************************************************************)
call_convert_to_nfa(eps_nfa) ==
    [out |-> convert_to_nfa(eps_nfa), inputs |-> << eps_nfa >>, borrows |-> {}]

call_convert_to_dfa(n) ==
    [out |-> convert_to_dfa(n), inputs |-> << n >>, borrows |-> {}]

call_accepts(fsm, word) ==
    [out |-> accepts(fsm, word), inputs |-> << fsm >>, borrows |-> {}]

(***************************************************************************)
(* The automaton-spec parser, src/src/automaton/parser.py.  A statement of *)
(* the token stream is a field definition or a TRANS token; a TRANS token  *)
(* is given by the pieces lex_transition cuts it into.                     *)
(***************************************************************************)
\* Optional[...]: None, or a value
None == [some |-> FALSE]
Some(x) == [some |-> TRUE, v |-> x]

\* the target of a transition statement: State | Set[State]
IdentTarget(state) == [type |-> "IDENT", state |-> state]
SetTarget(states) == [type |-> "SET", states |-> states]

parse_transition(token) ==
    IF token.target.type = "IDENT" /\ ~token.symbol.some
    THEN Raise("ParserError", 0)
    ELSE [raised |-> "none", state |-> token.state, symbol |-> token.symbol,
          target |-> token.target]

\* add_unique_entry that stores the entry over the one the key has
add_unique_entry_overwrite(mapping, key, value) ==
    LET m == IF mapping.some /\ DOMAIN mapping.v # {} THEN mapping.v ELSE EmptyDict
    IN  [raised |-> "none",
         value |-> [k \in DOMAIN m \cup {key} |-> IF k = key THEN value ELSE m[k]]]

add_unique_entry(mapping, key, value) ==
    LET m == IF mapping.some /\ DOMAIN mapping.v # {} THEN mapping.v ELSE EmptyDict
    IN  IF key \in DOMAIN m
        THEN Raise("ParserError", 0)
        ELSE [raised |-> "none", value |-> DictMerge(m, key :> value)]

\* the locals after an assignment `name = add_unique_entry(...)`
assign_entry(p, name, entry) ==
    IF entry.raised # "none"
    THEN [p EXCEPT !.status = entry.raised]
    ELSE [p EXCEPT ![name] = Some(entry.value)]

handle_transition(p, token) ==
    LET t == parse_transition(token)
        is_set == t.target.type = "SET"
    IN  IF t.raised # "none" THEN [p EXCEPT !.status = t.raised]
        ELSE IF ~t.symbol.some THEN
            LET p1 == [p EXCEPT !.is_nfa = TRUE]
            IN  IF ~is_set
                THEN [p1 EXCEPT !.status = "ParserError"]
                ELSE assign_entry(p1, "eps_transitions",
                        add_unique_entry(p1.eps_transitions, t.state, t.target.states))
        ELSE IF is_set /\ p.dfa_transitions.some
            THEN [p EXCEPT !.status = "ParserError"]
        ELSE IF ~is_set /\ p.is_nfa
            THEN [p EXCEPT !.status = "ParserError"]
        ELSE IF is_set THEN
            LET p1 == [p EXCEPT !.is_nfa = TRUE]
            IN  assign_entry(p1, "nfa_transitions",
                    add_unique_entry(p1.nfa_transitions,
                                     << t.state, t.symbol.v >>, t.target.states))
        ELSE assign_entry(p, "dfa_transitions",
                    add_unique_entry(p.dfa_transitions,
                                     << t.state, t.symbol.v >>, t.target.state))

\* `mapping or {}`
or_empty(mapping) ==
    IF mapping.some /\ DOMAIN mapping.v # {} THEN mapping.v ELSE EmptyDict

\* the end of parse_automaton when it chooses the class by is_nfa alone
parse_automaton_end_by_is_nfa(p) ==
    IF ~p.states.some THEN Raise("ParserError", 0)
    ELSE IF ~p.alphabet.some THEN Raise("ParserError", 0)
    ELSE IF ~p.initial_state.some THEN Raise("ParserError", 0)
    ELSE IF ~p.accepting_states.some THEN Raise("ParserError", 0)
    ELSE IF ~p.dfa_transitions.some /\ ~p.nfa_transitions.some
        THEN Raise("ParserError", 0)
    ELSE IF p.is_nfa
        THEN NFA(p.states.v, p.alphabet.v, p.initial_state.v,
                 p.accepting_states.v, or_empty(p.nfa_transitions))
    ELSE DFA(p.states.v, p.alphabet.v, p.initial_state.v,
             p.accepting_states.v, or_empty(p.dfa_transitions))

\* the end of parse_automaton without the test for a transition map
parse_automaton_end_no_map_test(p) ==
    IF ~p.states.some THEN Raise("ParserError", 0)
    ELSE IF ~p.alphabet.some THEN Raise("ParserError", 0)
    ELSE IF ~p.initial_state.some THEN Raise("ParserError", 0)
    ELSE IF ~p.accepting_states.some THEN Raise("ParserError", 0)
    ELSE IF p.eps_transitions.some
        THEN EpsNFA(p.states.v, p.alphabet.v, p.initial_state.v,
                    p.accepting_states.v, or_empty(p.nfa_transitions),
                    p.eps_transitions.v)
    ELSE IF p.is_nfa
        THEN NFA(p.states.v, p.alphabet.v, p.initial_state.v,
                 p.accepting_states.v, or_empty(p.nfa_transitions))
    ELSE DFA(p.states.v, p.alphabet.v, p.initial_state.v,
             p.accepting_states.v, or_empty(p.dfa_transitions))

\* parser.py:120-132, what parse_automaton does once the token is EOF
parse_automaton_end(p) ==
    IF ~p.states.some THEN Raise("ParserError", 0)
    ELSE IF ~p.alphabet.some THEN Raise("ParserError", 0)
    ELSE IF ~p.initial_state.some THEN Raise("ParserError", 0)
    ELSE IF ~p.accepting_states.some THEN Raise("ParserError", 0)
    ELSE IF ~p.dfa_transitions.some /\ ~p.nfa_transitions.some
        THEN Raise("ParserError", 0)
    ELSE IF p.eps_transitions.some
        THEN EpsNFA(p.states.v, p.alphabet.v, p.initial_state.v,
                    p.accepting_states.v, or_empty(p.nfa_transitions),
                    p.eps_transitions.v)
    ELSE IF p.is_nfa
        THEN NFA(p.states.v, p.alphabet.v, p.initial_state.v,
                 p.accepting_states.v, or_empty(p.nfa_transitions))
    ELSE DFA(p.states.v, p.alphabet.v, p.initial_state.v,
             p.accepting_states.v, or_empty(p.dfa_transitions))

(***************************************************************************)
(* The lexers: generic_lexer (common/lexer_utils.py) with the scan         *)
(* function of the regex lexer (regex/lexer.py).  A str is the sequence of *)
(* its characters; an index i of the code is the index i + 1 here.         *)
(***************************************************************************)
\* common/token.py: Token(type, value), value an Optional[str]
Token(type, value) == [type |-> type, value |-> value]
Token_eof(type) == Token(type, None)

isspace(c) == c \in {" "}
isalnum(c) == c \in {"a", "b", "c"}
is_valid_ident_char(c) == isalnum(c) \/ c = "_" \/ c = "-"

Scanned(token, i) == [raised |-> "none", token |-> token, i |-> i]
LexFailed(i) == [raised |-> "LexerError", token |-> Token_eof("none"), i |-> i]

\* src[start:stop]
Slice(src, start, stop) == SubSeq(src, start + 1, stop)

\* the while loop of scan_quoted_ident, and the test after it
RECURSIVE scan_quoted_while(_, _, _)
scan_quoted_while(src, start, i) ==
    IF i < Len(src) /\ src[i + 1] # "'" THEN
        IF ~is_valid_ident_char(src[i + 1]) THEN LexFailed(i)
        ELSE scan_quoted_while(src, start, i + 1)
    ELSE IF i >= Len(src) THEN LexFailed(i)
    ELSE [raised |-> "none", text |-> Slice(src, start, i), i |-> i]

scan_quoted_ident(src, i) == scan_quoted_while(src, i + 1, i + 1)

regex_next_token(src, i) ==
    LET c == src[i + 1]
    IN  IF c = "(" THEN Scanned(Token("LPAREN", None), i + 1)
        ELSE IF c = ")" THEN Scanned(Token("RPAREN", None), i + 1)
        ELSE IF c = "*" THEN Scanned(Token("STAR", None), i + 1)
        ELSE IF c = "|" THEN Scanned(Token("OR", None), i + 1)
        ELSE IF c = "'" THEN
            LET q == scan_quoted_ident(src, i)
            IN  IF q.raised # "none" THEN q
                \* is_not_eps
                ELSE IF q.text = << >> THEN LexFailed(q.i)
                ELSE Scanned(Token("IDENT", Some(q.text)), q.i + 1)
        ELSE IF isalnum(c) THEN Scanned(Token("IDENT", Some(<< c >>)), i + 1)
        ELSE LexFailed(i)

\* the locals of a generic_lexer generator that was given src: the index i,
\* the tokens it yielded so far, and for each of them the index it was
\* scanned at
LexerLocals(src) ==
    [status |-> "lexing", src |-> src, i |-> 0, tokens |-> << >>, at |-> << >>]

\* one pass of generic_lexer from the test of its while loop to the next one,
\* or to its end
generic_lexer_space_token(lx) ==
    IF lx.i < Len(lx.src) THEN
        LET r == regex_next_token(lx.src, lx.i)
        IN  IF isspace(lx.src[lx.i + 1])
            THEN [lx EXCEPT !.i = @ + 1,
                            !.tokens = Append(@, Token("IDENT", Some(<< " " >>))),
                            !.at = Append(@, lx.i)]
            ELSE IF r.raised # "none" THEN [lx EXCEPT !.status = r.raised]
            ELSE [lx EXCEPT !.i = r.i,
                            !.tokens = Append(@, r.token),
                            !.at = Append(@, lx.i)]
    ELSE [lx EXCEPT !.status = "done",
                    !.tokens = Append(@, Token_eof("EOF")),
                    !.at = Append(@, lx.i)]

generic_lexer(lx) ==
    IF lx.i < Len(lx.src) THEN
        IF isspace(lx.src[lx.i + 1]) THEN [lx EXCEPT !.i = @ + 1]
        ELSE LET r == regex_next_token(lx.src, lx.i)
             IN  IF r.raised # "none" THEN [lx EXCEPT !.status = r.raised]
                 ELSE [lx EXCEPT !.i = r.i,
                                 !.tokens = Append(@, r.token),
                                 !.at = Append(@, lx.i)]
    ELSE [lx EXCEPT !.status = "done",
                    !.tokens = Append(@, Token_eof("EOF")),
                    !.at = Append(@, lx.i)]

(***************************************************************************)
(* The regex parser, regex/parser.py, over the tokens of regex/lexer.py.   *)
(* A Peekable over the token stream is the sequence of tokens with the     *)
(* index of the next token; a parse function returns the tree and the      *)
(* index it left the stream at, or the exception it raised.                *)
(***************************************************************************)
Parsed(expr, i) == [raised |-> "none", expr |-> expr, i |-> i]
ParseFailed(what, i) == [raised |-> what, expr |-> NoExpr, i |-> i]

\* Peekable.next() and Peekable.peek(): next(self._it) on an exhausted stream
\* raises StopIteration
has_next(tokens, i) == i <= Len(tokens)

\* expect(tokens, type): the index after the token, or ParserError
expect(tokens, i, expected_type) ==
    IF ~has_next(tokens, i) THEN ParseFailed("StopIteration", i)
    ELSE IF tokens[i].type # expected_type THEN ParseFailed("ParserError", i + 1)
    ELSE Parsed(NoExpr, i + 1)

\* the value of the one member of a set; `r \in {x}` names the value of x
Only(S) == CHOOSE x \in S : TRUE

RECURSIVE parse_or(_, _)
RECURSIVE parse_concat(_, _)

\* parse_atom after parse_or returned r for the text behind the parenthesis
parse_atom_close(tokens, r) ==
    IF r.raised # "none" THEN r
    ELSE Only({IF x.raised # "none" THEN x ELSE Parsed(r.expr, x.i) :
                 x \in {expect(tokens, r.i, "RPAREN")}})

parse_atom(tokens, i) ==
    IF ~has_next(tokens, i) THEN ParseFailed("StopIteration", i)
    ELSE IF tokens[i].type = "LPAREN" THEN
        Only({parse_atom_close(tokens, r) : r \in {parse_or(tokens, i + 1)}})
    ELSE IF tokens[i].type = "IDENT" THEN
        IF ~tokens[i].value.some THEN ParseFailed("ParserError", i + 1)
        ELSE Parsed(SymbolNode(tokens[i].value.v), i + 1)
    ELSE ParseFailed("ParserError", i)

parse_star(tokens, i) ==
    Only({IF r.raised # "none" THEN r
          ELSE IF ~has_next(tokens, r.i) THEN ParseFailed("StopIteration", r.i)
          ELSE IF tokens[r.i].type = "STAR" THEN Parsed(StarNode(r.expr), r.i + 1)
          ELSE r :
            r \in {parse_atom(tokens, i)}})

parse_concat_while_right(tokens, lhs, i) ==
    IF ~has_next(tokens, i) THEN ParseFailed("StopIteration", i)
    ELSE IF tokens[i].type \in {"IDENT", "LPAREN"} THEN
        Only({IF rhs.raised # "none" THEN rhs
              ELSE Parsed(ConcatNode(lhs, rhs.expr), rhs.i) :
                rhs \in {parse_concat(tokens, i)}})
    ELSE Parsed(lhs, i)

\* the while loop of parse_concat, entered with lhs parsed up to index i
RECURSIVE parse_concat_while(_, _, _)
parse_concat_while(tokens, lhs, i) ==
    IF ~has_next(tokens, i) THEN ParseFailed("StopIteration", i)
    ELSE IF tokens[i].type \in {"IDENT", "LPAREN"} THEN
        Only({IF rhs.raised # "none" THEN rhs
              ELSE parse_concat_while(tokens, ConcatNode(lhs, rhs.expr), rhs.i) :
                rhs \in {parse_star(tokens, i)}})
    ELSE Parsed(lhs, i)

parse_concat(tokens, i) ==
    Only({IF lhs.raised # "none" THEN lhs
          ELSE parse_concat_while(tokens, lhs.expr, lhs.i) :
            lhs \in {parse_star(tokens, i)}})

\* the while loop of parse_or, entered with lhs parsed up to index i
RECURSIVE parse_or_while(_, _, _)
parse_or_while(tokens, lhs, i) ==
    IF ~has_next(tokens, i) THEN ParseFailed("StopIteration", i)
    ELSE IF tokens[i].type = "OR" THEN
        Only({IF rhs.raised # "none" THEN rhs
              ELSE parse_or_while(tokens, OrNode(lhs, rhs.expr), rhs.i) :
                rhs \in {parse_concat(tokens, i + 1)}})
    ELSE Parsed(lhs, i)

parse_or(tokens, i) ==
    Only({IF lhs.raised # "none" THEN lhs
          ELSE parse_or_while(tokens, lhs.expr, lhs.i) :
            lhs \in {parse_concat(tokens, i)}})

\* parse_regex that returns without expecting the end marker
parse_regex_end_no_eof(tokens, r) ==
    IF r.raised # "none" THEN r ELSE Parsed(r.expr, r.i)

\* parse_regex after parse_or returned r
parse_regex_end(tokens, r) ==
    IF r.raised # "none" THEN r
    ELSE Only({IF x.raised # "none" THEN x ELSE Parsed(r.expr, x.i) :
                 x \in {expect(tokens, r.i, "EOF")}})

parse_regex(tokens) ==
    Only({parse_regex_end(tokens, r) : r \in {parse_or(tokens, 1)}})

(***************************************************************************)
(* parse_transition over the text of a TRANS token: the transition lexer   *)
(* of automaton/lexer.py, the set lexer of common/lexer_utils.py and the   *)
(* parsers of automaton/parser.py and common/parser_utils.py.  A lexer is  *)
(* a generator: it scans a token when the parser asks for one.  The state  *)
(* of a generator over src is the index i it resumes at, Len(src) + 1 once *)
(* it has yielded the end marker.                                          *)
(***************************************************************************)
\* the while loop of scan_set, and the test after it
RECURSIVE scan_set_while(_, _, _)
scan_set_while(src, start, i) ==
    IF i < Len(src) /\ src[i + 1] # "}" THEN scan_set_while(src, start, i + 1)
    ELSE IF i >= Len(src) THEN LexFailed(i)
    ELSE [raised |-> "none", text |-> Slice(src, start, i + 1), i |-> i]

scan_set(src, i) == scan_set_while(src, i, i)

transition_next_token(src, i) ==
    LET c == src[i + 1]
    IN  IF c = "(" THEN Scanned(Token("LPRENT", None), i + 1)
        ELSE IF c = ")" THEN Scanned(Token("RPRENT", None), i + 1)
        ELSE IF c = "," THEN Scanned(Token("COMMA", None), i + 1)
        ELSE IF c = "{" THEN
            LET s == scan_set(src, i)
            IN  IF s.raised # "none" THEN s
                \* is_not_eps
                ELSE IF s.text = << >> THEN LexFailed(s.i)
                ELSE Scanned(Token("SET", Some(s.text)), s.i + 1)
        ELSE IF c = "-" /\ i + 1 < Len(src) /\ src[i + 2] = ">"
            THEN Scanned(Token("ARROW", None), i + 2)
        ELSE IF c = "'" THEN
            LET q == scan_quoted_ident(src, i)
            IN  IF q.raised # "none" THEN q
                ELSE IF q.text = << >> THEN Scanned(Token("EPS", None), q.i + 1)
                ELSE Scanned(Token("IDENT", Some(q.text)), q.i + 1)
        ELSE IF isalnum(c) THEN Scanned(Token("IDENT", Some(<< c >>)), i + 1)
        ELSE LexFailed(i)

set_next_token(src, i) ==
    LET c == src[i + 1]
    IN  IF c = "{" THEN Scanned(Token("LBRACE", None), i + 1)
        ELSE IF c = "}" THEN Scanned(Token("RBRACE", None), i + 1)
        ELSE IF c = "," THEN Scanned(Token("COMMA", None), i + 1)
        ELSE IF c = "'" THEN
            LET q == scan_quoted_ident(src, i)
            IN  IF q.raised # "none" THEN q
                \* is_not_eps
                ELSE IF q.text = << >> THEN LexFailed(q.i)
                ELSE Scanned(Token("IDENT", Some(q.text)), q.i + 1)
        ELSE IF isalnum(c) THEN Scanned(Token("IDENT", Some(<< c >>)), i + 1)
        ELSE LexFailed(i)

\* next() on the generator generic_lexer(src, next_token_func, ...) that is
\* to resume at i; lexer names the next_token_func
RECURSIVE generator_next(_, _, _)
generator_next(lexer, src, i) ==
    IF i > Len(src) THEN [raised |-> "StopIteration", token |-> Token_eof("none"), i |-> i]
    ELSE IF i = Len(src) THEN Scanned(Token_eof("EOF"), Len(src) + 1)
    ELSE IF isspace(src[i + 1]) THEN generator_next(lexer, src, i + 1)
    ELSE IF lexer = "set" THEN set_next_token(src, i)
    ELSE transition_next_token(src, i)

\* expect(tokens, type) on a Peekable over the generator
expect_next(lexer, src, i, expected_type) ==
    Only({IF r.raised # "none" THEN r
          ELSE IF r.token.type # expected_type
              THEN [raised |-> "ParserError", token |-> r.token, i |-> r.i]
          ELSE r : r \in {generator_next(lexer, src, i)}})

\* expect_value(tokens, type)
expect_value(lexer, src, i, ttype) ==
    Only({IF r.raised # "none" THEN r
          ELSE IF ~r.token.value.some
              THEN [raised |-> "ParserError", token |-> r.token, i |-> r.i]
          ELSE r : r \in {expect_next(lexer, src, i, ttype)}})

SetParsed(ret, i) == [raised |-> "none", value |-> ret, i |-> i]
SetFailed(what, i) == [raised |-> what, value |-> {}, i |-> i]

\* the while loop of parse_set and the two expects after it
RECURSIVE parse_set_while(_, _, _)
parse_set_while(src, i, ret) ==
    Only({IF peek.raised # "none" THEN SetFailed(peek.raised, peek.i)
          ELSE IF peek.token.type = "COMMA" THEN
              Only({IF e.raised # "none" THEN SetFailed(e.raised, e.i)
                    ELSE parse_set_while(src, e.i, ret \cup {e.token.value.v})
                    : e \in {expect_value("set", src, peek.i, "IDENT")}})
          ELSE IF peek.token.type # "RBRACE" THEN SetFailed("ParserError", peek.i)
          ELSE Only({IF eof.raised # "none" THEN SetFailed(eof.raised, eof.i)
                     ELSE SetParsed(ret, eof.i)
                     : eof \in {expect_next("set", src, peek.i, "EOF")}})
          : peek \in {generator_next("set", src, i)}})

\* parse_set(lex_set(src))
parse_set(src) ==
    Only({IF lb.raised # "none" THEN SetFailed(lb.raised, lb.i)
          ELSE Only({IF e.raised # "none" THEN SetFailed(e.raised, e.i)
                     ELSE parse_set_while(src, e.i, {e.token.value.v})
                     : e \in {expect_value("set", src, lb.i, "IDENT")}})
          : lb \in {expect_next("set", src, 0, "LBRACE")}})

\* what parse_transition(lex_transition(src)) returns or raises, and the
\* index i the lexer was left at
TransParsed(state, symbol, target, i) ==
    [raised |-> "none", state |-> state, symbol |-> symbol, target |-> target, i |-> i]
TransFailed(what, i) ==
    [raised |-> what, state |-> << >>, symbol |-> None,
     target |-> IdentTarget(<< >>), i |-> i]

\* the match statement without the test of the symbol
parse_transition_target_bare(state, symbol, token, i) ==
    IF token.type = "IDENT" THEN TransParsed(state, symbol, IdentTarget(token.value.v), i)
    ELSE IF token.type = "SET" THEN
        Only({IF s.raised # "none" THEN TransFailed(s.raised, i)
              ELSE TransParsed(state, symbol, SetTarget(s.value), i)
              : s \in {parse_set(token.value.v)}})
    ELSE TransFailed("ParserError", i)

\* the match statement of parse_transition on the token after the arrow
parse_transition_target(state, symbol, token, i) ==
    IF token.type = "IDENT" THEN
        IF ~symbol.some THEN TransFailed("ParserError", i)
        ELSE TransParsed(state, symbol, IdentTarget(token.value.v), i)
    ELSE IF token.type = "SET" THEN
        Only({IF s.raised # "none" THEN TransFailed(s.raised, i)
              ELSE TransParsed(state, symbol, SetTarget(s.value), i)
              : s \in {parse_set(token.value.v)}})
    ELSE TransFailed("ParserError", i)

\* parse_transition from `expect(tokens, RPRENT)` on
parse_transition_rest(src, state, symbol, i) ==
    Only({IF rp.raised # "none" THEN TransFailed(rp.raised, rp.i)
          ELSE Only({IF ar.raised # "none" THEN TransFailed(ar.raised, ar.i)
                     ELSE Only({IF t.raised # "none" THEN TransFailed(t.raised, t.i)
                                ELSE parse_transition_target(state, symbol, t.token, t.i)
                                : t \in {generator_next("transition", src, ar.i)}})
                     : ar \in {expect_next("transition", src, rp.i, "ARROW")}})
          : rp \in {expect_next("transition", src, i, "RPRENT")}})

\* the symbol of parse_transition: None after an EPS token that peek() showed
\* and next() took, the value of an IDENT token otherwise
parse_transition_symbol(src, state, i) ==
    Only({IF peek.raised # "none" THEN TransFailed(peek.raised, peek.i)
          ELSE IF peek.token.type = "EPS"
              THEN parse_transition_rest(src, state, None, peek.i)
          ELSE Only({IF sy.raised # "none" THEN TransFailed(sy.raised, sy.i)
                     ELSE parse_transition_rest(src, state, Some(sy.token.value.v), sy.i)
                     : sy \in {expect_value("transition", src, i, "IDENT")}})
          : peek \in {generator_next("transition", src, i)}})

\* parse_transition(lex_transition(src))
parse_transition_lexed(src) ==
    Only({IF lp.raised # "none" THEN TransFailed(lp.raised, lp.i)
          ELSE Only({IF st.raised # "none" THEN TransFailed(st.raised, st.i)
                     ELSE Only({IF co.raised # "none" THEN TransFailed(co.raised, co.i)
                                ELSE parse_transition_symbol(src, st.token.value.v, co.i)
                                : co \in {expect_next("transition", src, st.i, "COMMA")}})
                     : st \in {expect_value("transition", src, lp.i, "IDENT")}})
          : lp \in {expect_next("transition", src, 0, "LPRENT")}})

(***************************************************************************)
(* The state of a session with the library.                                *)
(***************************************************************************)
VARIABLES
    session,      \* what the session's caller does, one of Sessions
    parser,       \* the locals of the running parse_automaton call
    id_counter,   \* EpsNFA._id_counter
    pool,         \* the automata built so far, each with the regex it stands for
    nfa,          \* the latest result of convert_to_nfa, with its argument
    dfa,          \* the latest result of convert_to_dfa, with its argument
    last          \* the latest call: its name, arguments and outcome; an
                  \* exception it raised ends the session

vars == << session, parser, id_counter, pool, nfa, dfa, last >>

NoFSM == [kind |-> "none"]
NoConversion == [of |-> NoFSM, fsm |-> NoFSM]

\* the words given to accepts
Words == UNION {[1..n -> Symbols] : n \in 0..MaxWordLen}

\* the automata that exist
PoolFSMs == {pool[i].fsm : i \in DOMAIN pool}
Objects == PoolFSMs \cup ({nfa.fsm, dfa.fsm} \ {NoFSM})

\* parser.py:62-69, the locals as parse_automaton initialises them;
\* `declared` lists the transitions its statements declared so far
ParserLocals(status) ==
    [status |-> status,
     states |-> None,
     alphabet |-> None,
     initial_state |-> None,
     accepting_states |-> None,
     dfa_transitions |-> None,
     nfa_transitions |-> None,
     eps_transitions |-> None,
     is_nfa |-> FALSE,
     declared |-> {}]

InitSession(s) ==
    /\ session = s
    /\ parser = ParserLocals(IF s = "parse" THEN "parsing" ELSE "idle")
    /\ id_counter = 0
    /\ pool = << >>
    /\ nfa = NoConversion
    /\ dfa = NoConversion
    /\ last = [op |-> "none", raised |-> "none"]

Init == InitSession("thompson")

\* no call of the session has raised an exception
Running == last.raised = "none"

\* what a location holding the automaton x holds after a call that was given
\* the automata `before` and left them as `after`
Left(before, after, x) ==
    IF \E n \in DOMAIN before : before[n] = x
    THEN after[CHOOSE n \in DOMAIN before : before[n] = x]
    ELSE x
LeftPool(before, after) ==
    [k \in DOMAIN pool |-> [pool[k] EXCEPT !.fsm = Left(before, after, @)]]
LeftConversion(before, after, conversion) ==
    [conversion EXCEPT !.fsm = Left(before, after, @)]

\* a Thompson step returned: the counter moves, the result joins the pool
Stepped(op, args, step, expr) ==
    /\ id_counter' = step.counter
    /\ pool' = IF step.out.raised = "none"
               THEN Append(LeftPool(args, step.inputs),
                           [fsm |-> step.out.fsm, expr |-> expr])
               ELSE LeftPool(args, step.inputs)
    /\ nfa' = LeftConversion(args, step.inputs, nfa)
    /\ dfa' = LeftConversion(args, step.inputs, dfa)
    /\ last' = [op |-> op, raised |-> step.out.raised, step |-> step]
    /\ UNCHANGED << session, parser >>

FromSymbol(symbol) ==
    /\ Running
    /\ Len(pool) < MaxPool
    /\ Stepped("from_symbol", << >>, from_symbol(symbol, id_counter), SymbolNode(symbol))

Star(i, order) ==
    /\ Running
    /\ Len(pool) < MaxPool
    /\ pool[i].fsm.kind = "EpsNFA"
    /\ Stepped("star", << pool[i].fsm >>, star(pool[i].fsm, id_counter, order),
               StarNode(pool[i].expr))

Concat(i, j, order) ==
    /\ Running
    /\ Len(pool) < MaxPool
    /\ pool[i].fsm.kind = "EpsNFA"
    /\ pool[j].fsm.kind = "EpsNFA"
    /\ Stepped("concat", << pool[i].fsm, pool[j].fsm >>,
               concat(pool[i].fsm, pool[j].fsm, id_counter, order),
               ConcatNode(pool[i].expr, pool[j].expr))

Union(i, j, order) ==
    /\ Running
    /\ Len(pool) < MaxPool
    /\ pool[i].fsm.kind = "EpsNFA"
    /\ pool[j].fsm.kind = "EpsNFA"
    /\ Stepped("union", << pool[i].fsm, pool[j].fsm >>,
               union(pool[i].fsm, pool[j].fsm, id_counter, order),
               OrNode(pool[i].expr, pool[j].expr))

RegexToEpsNFA(expr, order) ==
    /\ Running
    /\ Len(pool) < MaxPool
    /\ Stepped("regex_to_epsnfa", << >>, regex_to_epsnfa(expr, id_counter, order),
               expr)

ConvertToNfa(i) ==
    /\ Running
    /\ pool[i].fsm.kind = "EpsNFA"
    /\ LET call == call_convert_to_nfa(pool[i].fsm)
           args == << pool[i].fsm >>
       IN  /\ nfa' = IF call.out.raised = "none"
                     THEN [of |-> pool[i].fsm, fsm |-> call.out.fsm]
                     ELSE LeftConversion(args, call.inputs, nfa)
           /\ pool' = LeftPool(args, call.inputs)
           /\ dfa' = LeftConversion(args, call.inputs, dfa)
           /\ last' = [op |-> "convert_to_nfa", raised |-> call.out.raised,
                        call |-> call]
    /\ UNCHANGED << session, parser, id_counter >>

ConvertToDfa(n) ==
    /\ Running
    /\ n.kind = "NFA"
    /\ LET call == call_convert_to_dfa(n)
           args == << n >>
       IN  /\ dfa' = IF call.out.raised = "none"
                     THEN [of |-> n, fsm |-> call.out.fsm]
                     ELSE LeftConversion(args, call.inputs, dfa)
           /\ pool' = LeftPool(args, call.inputs)
           /\ nfa' = LeftConversion(args, call.inputs, nfa)
           /\ last' = [op |-> "convert_to_dfa", raised |-> call.out.raised,
                        call |-> call]
    /\ UNCHANGED << session, parser, id_counter >>

Accepts(fsm, word) ==
    /\ Running
    /\ LET call == call_accepts(fsm, word)
           args == << fsm >>
       IN  /\ pool' = LeftPool(args, call.inputs)
           /\ nfa' = LeftConversion(args, call.inputs, nfa)
           /\ dfa' = LeftConversion(args, call.inputs, dfa)
           /\ last' = [op |-> "accepts", raised |-> call.out.raised,
                        on |-> fsm, word |-> word, call |-> call]
    /\ UNCHANGED << session, parser, id_counter >>

\* the regexes given to regex_to_epsnfa: a symbol, or one operator over symbols
Leaves == {SymbolNode(a) : a \in Symbols}
Regexes ==
    Leaves \cup {StarNode(e) : e \in Leaves}
           \cup {ConcatNode(l, r) : l \in Leaves, r \in Leaves}
           \cup {OrNode(l, r) : l \in Leaves, r \in Leaves}

\* DFA(...), NFA(...) or EpsNFA(...) called by the session itself
Construct(kind, a) ==
    /\ LET out == IF kind = "DFA"
                  THEN DFA(a.states, a.alphabet, a.initial_state,
                           a.accepting_states, a.transitions)
                  ELSE IF kind = "NFA"
                  THEN NFA(a.states, a.alphabet, a.initial_state,
                           a.accepting_states, a.transitions)
                  ELSE EpsNFA(a.states, a.alphabet, a.initial_state,
                              a.accepting_states, a.transitions, a.eps_transitions)
       IN  /\ pool' = IF out.raised = "none"
                      THEN Append(pool, [fsm |-> out.fsm, expr |-> NoExpr])
                      ELSE pool
           /\ last' = [op |-> "construct", raised |-> out.raised,
                        kind |-> kind, args |-> a, out |-> out]
    /\ UNCHANGED << session, parser, id_counter, nfa, dfa >>

\* the arguments the session gives to a constructor
HandStates == {<< "p" >>, << "q" >>}
HandSymbols == {"a"}
PartialFunctions(K, V) == UNION {[D -> V] : D \in SUBSET K}
HandArgs(kind) ==
    LET targets == IF kind = "DFA" THEN HandStates ELSE SUBSET HandStates
        epsilons == IF kind = "EpsNFA"
                    THEN PartialFunctions(HandStates, SUBSET HandStates)
                    ELSE {EmptyDict}
    IN  {a \in [states : {{<< "p" >>}, HandStates},
                alphabet : {{}, HandSymbols},
                initial_state : HandStates,
                accepting_states : SUBSET HandStates,
                transitions : PartialFunctions(HandStates \X HandSymbols, targets),
                eps_transitions : epsilons] :
            Cardinality(DOMAIN a.transitions) + Cardinality(DOMAIN a.eps_transitions)
              <= MaxHandEntries}

\* the statements of the token streams given to parse_automaton
FieldValues(field) ==
    IF field = "states" THEN {{<< "p" >>}, HandStates}
    ELSE IF field = "alphabet" THEN {HandSymbols}
    ELSE IF field = "initial_state" THEN {<< "p" >>}
    ELSE {{<< "q" >>}}
Fields == {"states", "alphabet", "initial_state", "accepting_states"}
TransTokens ==
    [state : HandStates,
     symbol : {None} \cup {Some(a) : a \in HandSymbols},
     target : {IdentTarget(<< "q" >>), SetTarget({<< "q" >>}), SetTarget(HandStates)}]

\* parser.py:102-119, a statement `Q = ...;`, `A = ...;`, `I = ...;` or `F = ...;`
ParseField(field, value) ==
    /\ parser.status = "parsing"
    /\ IF parser[field].some
       THEN /\ parser' = [parser EXCEPT !.status = "ParserError"]
            /\ last' = [op |-> "parse_automaton", raised |-> "ParserError"]
       ELSE /\ parser' = [parser EXCEPT ![field] = Some(value)]
            /\ UNCHANGED last
    /\ UNCHANGED << session, id_counter, pool, nfa, dfa >>

\* parser.py:98-101, a statement `(state, symbol) -> target;`
ParseTransition(token) ==
    /\ parser.status = "parsing"
    /\ Cardinality(parser.declared) < MaxTransStmts
    /\ LET p == handle_transition(parser, token)
       IN  /\ parser' = [p EXCEPT !.declared = @ \cup {token}]
           /\ last' = IF p.status = "parsing" THEN last
                      ELSE [op |-> "parse_automaton", raised |-> p.status]
    /\ UNCHANGED << session, id_counter, pool, nfa, dfa >>

\* parser.py:97 and 120-132, the EOF token
ParseEOF ==
    /\ parser.status = "parsing"
    /\ LET out == parse_automaton_end(parser)
       IN  /\ parser' = [parser EXCEPT !.status =
                            IF out.raised = "none" THEN "returned" ELSE out.raised]
           /\ pool' = IF out.raised = "none"
                      THEN Append(pool, [fsm |-> out.fsm, expr |-> NoExpr])
                      ELSE pool
           /\ last' = [op |-> "parse_automaton", raised |-> out.raised, out |-> out]
    /\ UNCHANGED << session, id_counter, nfa, dfa >>

\* the source texts given to lex_regex
LexChars == {"a", "(", "*", "|", "'", " ", "#"}
Sources == UNION {[1..n -> LexChars] : n \in 0..MaxSourceLen}

InitLex ==
    /\ session = "lex"
    /\ \E src \in Sources : parser = LexerLocals(src)
    /\ id_counter = 0
    /\ pool = << >>
    /\ nfa = NoConversion
    /\ dfa = NoConversion
    /\ last = [op |-> "none", raised |-> "none"]

\* the generator ran one more pass
Lexed ==
    /\ parser' = generic_lexer(parser)
    /\ last' = IF parser'.status \in {"lexing", "done"} THEN last
               ELSE [op |-> "lex_regex", raised |-> parser'.status]
    /\ UNCHANGED << session, id_counter, pool, nfa, dfa >>

\* lexer_utils.py:18-20, a whitespace character
LexSkip ==
    /\ parser.status = "lexing"
    /\ parser.i < Len(parser.src)
    /\ isspace(parser.src[parser.i + 1])
    /\ Lexed

\* lexer_utils.py:21-23, a token is scanned and yielded
LexToken ==
    /\ parser.status = "lexing"
    /\ parser.i < Len(parser.src)
    /\ ~isspace(parser.src[parser.i + 1])
    /\ Lexed

\* lexer_utils.py:24, the end of the source text
LexEOF ==
    /\ parser.status = "lexing"
    /\ parser.i >= Len(parser.src)
    /\ Lexed

\* the token streams given to parse_regex: what lex_regex yields for a source
\* text of at most MaxRegexTokens tokens
RegexSymbols == {"a", "b", "c"}
RegexTokenTypes == {"LPAREN", "RPAREN", "STAR", "OR"}
RegexTokenSet ==
    {Token(t, None) : t \in RegexTokenTypes}
        \cup {Token("IDENT", Some(<< a >>)) : a \in RegexSymbols}
RegexTokenStreams ==
    {Append(ts, Token_eof("EOF")) :
        ts \in UNION {[1..n -> RegexTokenSet] : n \in 0..MaxRegexTokens}}

\* parse_regex(tokens)
ParseRegex(tokens) ==
    /\ LET out == parse_regex(tokens)
       IN  last' = [op |-> "parse_regex", raised |-> out.raised,
                    tokens |-> tokens, out |-> out]
    /\ UNCHANGED << session, parser, id_counter, pool, nfa, dfa >>

(***************************************************************************)
(* Spec: a session that builds EpsNFAs by Thompson steps and converts them.*)
(***************************************************************************)
Next ==
    \/ \E a \in Symbols : FromSymbol(a)
    \/ \E i \in DOMAIN pool, order \in Orders : Star(i, order)
    \/ \E i \in DOMAIN pool, j \in DOMAIN pool, order \in Orders : Concat(i, j, order)
    \/ \E i \in DOMAIN pool, j \in DOMAIN pool, order \in Orders : Union(i, j, order)
    \/ \E e \in Regexes, order \in Orders : RegexToEpsNFA(e, order)
    \/ \E i \in DOMAIN pool : ConvertToNfa(i)
    \/ \E n \in Objects : ConvertToDfa(n)

Spec == Init /\ [][Next]_vars

(***************************************************************************)
(* SpecHand: a session that calls a constructor and converts the result.   *)
(***************************************************************************)
Kinds == {"DFA", "NFA", "EpsNFA"}

HandConstruct ==
    /\ Running
    /\ Len(pool) < MaxHand
    /\ \E kind \in Kinds : \E a \in HandArgs(kind) : Construct(kind, a)

NextHand ==
    \/ HandConstruct
    \/ \E i \in DOMAIN pool : ConvertToNfa(i)
    \/ \E n \in Objects : ConvertToDfa(n)

SpecHand == InitSession("hand") /\ [][NextHand]_vars

(***************************************************************************)
(* SpecAccepts: a session that calls a constructor and gives words to the  *)
(* automaton it built.                                                     *)
(***************************************************************************)
\* the arguments of its constructor call: two states, the first one initial
AcceptArgs(kind) ==
    {a \in HandArgs(kind) : a.states = HandStates /\ a.initial_state = << "p" >>}

AcceptsConstruct ==
    /\ Running
    /\ Len(pool) < MaxHand
    /\ \E kind \in Kinds : \E a \in AcceptArgs(kind) : Construct(kind, a)

NextAccepts ==
    \/ AcceptsConstruct
    \/ \E i \in DOMAIN pool : \E word \in Words : Accepts(pool[i].fsm, word)

SpecAccepts == InitSession("accepts") /\ [][NextAccepts]_vars

(***************************************************************************)
(* SpecParse: a session that gives a token stream to parse_automaton.      *)
(***************************************************************************)
NextParse ==
    \/ \E field \in Fields : \E value \in FieldValues(field) : ParseField(field, value)
    \/ \E token \in TransTokens : ParseTransition(token)
    \/ ParseEOF

SpecParse == InitSession("parse") /\ [][NextParse]_vars

(***************************************************************************)
(* SpecAll: a session of any of the four kinds.                            *)
(***************************************************************************)
Sessions == {"thompson", "hand", "accepts", "parse"}

InitAll == \E s \in Sessions : InitSession(s)

NextAll ==
    \/ session = "thompson" /\ Next
    \/ session = "hand" /\ NextHand
    \/ session = "accepts" /\ NextAccepts
    \/ session = "parse" /\ NextParse

SpecAll == InitAll /\ [][NextAll]_vars

(***************************************************************************)
(* SpecLex: a session that gives a source text to lex_regex and draws the  *)
(* tokens of the generator until it ends.                                  *)
(***************************************************************************)
NextLex ==
    \/ LexSkip
    \/ LexToken
    \/ LexEOF

SpecLex == InitLex /\ [][NextLex]_vars /\ WF_vars(NextLex)

(***************************************************************************)
(* SpecRegex: a session that gives a token stream to parse_regex.          *)
(***************************************************************************)
\* the session calls parse_regex once
NextRegex ==
    /\ last.op = "none"
    /\ \E tokens \in RegexTokenStreams : ParseRegex(tokens)

SpecRegex == InitSession("regex") /\ [][NextRegex]_vars

(***************************************************************************)
(* SpecTransition: a session that gives the text of a TRANS token to       *)
(* lex_transition and the tokens to parse_transition.  The text is made of *)
(* one piece for each position of the grammar and some pieces after them.  *)
(***************************************************************************)
MaxTailPieces == 2

BlobSlots ==
    << {<< "(" >>},
       {<< "b" >>, << "'", "'" >>},
       {<< "," >>, << "#" >>},
       {<< "a" >>, << "'", "'" >>, << "'", "a", "'" >>},
       {<< ")" >>, << "," >>},
       {<< "-", ">" >>, << "-" >>},
       {<< "c" >>, << "'", "c", "'" >>, << "'", "'" >>,
        << "{", "c", "}" >>, << "{", "b", ",", "c", "}" >>, << "{" >>} >>
TailPieces ==
    {<< "c" >>, << "#" >>, << " " >>, << "-", ">" >>, << "{", "c", "}" >>}
Tails == UNION {[1..n -> TailPieces] : n \in 0..MaxTailPieces}
Blobs ==
    {p1 \o p2 \o p3 \o p4 \o p5 \o p6 \o p7 \o Join(<< >>, tail) :
        p1 \in BlobSlots[1], p2 \in BlobSlots[2], p3 \in BlobSlots[3],
        p4 \in BlobSlots[4], p5 \in BlobSlots[5], p6 \in BlobSlots[6],
        p7 \in BlobSlots[7], tail \in Tails}

\* parse_transition(lex_transition(src))
ParseTransitionText(src) ==
    /\ LET out == parse_transition_lexed(src)
       IN  last' = [op |-> "parse_transition", raised |-> out.raised,
                    src |-> src, out |-> out]
    /\ UNCHANGED << session, parser, id_counter, pool, nfa, dfa >>

\* the session calls parse_transition once
NextTransition ==
    /\ last.op = "none"
    /\ \E src \in Blobs : ParseTransitionText(src)

SpecTransition == InitSession("transition") /\ [][NextTransition]_vars

(***************************************************************************)
(* SpecLabels: a session that builds an NFA whose state labels are free    *)
(* strings, one of them with a comma, and converts it to a DFA.            *)
(***************************************************************************)
LabelStates == {<< "p" >>, << "q" >>, << "p", ",", "q" >>}
LabelArgs ==
    [states : {LabelStates},
     alphabet : {HandSymbols},
     initial_state : {<< "p" >>},
     accepting_states : SUBSET LabelStates,
     transitions : PartialFunctions(LabelStates \X HandSymbols, SUBSET LabelStates),
     eps_transitions : {EmptyDict}]

LabelConstruct ==
    /\ Running
    /\ Len(pool) < MaxHand
    /\ \E a \in LabelArgs : Construct("NFA", a)

NextLabels ==
    \/ LabelConstruct
    \/ \E n \in Objects : ConvertToDfa(n)

SpecLabels == InitSession("labels") /\ [][NextLabels]_vars

(***************************************************************************)
(* SpecWork: the worklist loops of EpsNFA._eps_closure (fsm.py) and of     *)
(* convert_to_dfa (convert.py), one pass of the while loop at a time.  The *)
(* locals of the running call are held in `parser`; of them `pushed` lists *)
(* all that was ever put on the stack and `passes` counts the passes.      *)
(***************************************************************************)
MaxPushes == 5

\* fsm.py:97-98, the locals of _eps_closure(states) before its loop
ClosureLocals(fsm, states) ==
    [status |-> "running", loop |-> "_eps_closure", fsm |-> fsm,
     closure |-> states, stack |-> Iter(states),
     pushed |-> Iter(states), passes |-> 0]

\* convert.py:35-40, the locals of convert_to_dfa(nfa) before its loop
DfaLocals(fsm) ==
    [status |-> "running", loop |-> "convert_to_dfa", fsm |-> fsm,
     accepting_states |-> {}, transitions |-> EmptyDict,
     mapping |-> {fsm.INITIAL_STATE} :> collapse_state({fsm.INITIAL_STATE}),
     stack |-> << {fsm.INITIAL_STATE} >>,
     pushed |-> << {fsm.INITIAL_STATE} >>, passes |-> 0]

\* what a pass that took the locals from w to v pushed: it popped one entry
\* and appended the others
Pushed(w, v) == SubSeq(v.stack, Len(w.stack), Len(v.stack))

\* one pass of `while stack:` of _eps_closure that adds and pushes every
\* epsilon successor
eps_closure_pass_no_test(w) ==
    LET state == w.stack[Len(w.stack)]
        rest == SubSeq(w.stack, 1, Len(w.stack) - 1)
        new == eps_delta(w.fsm, state)
    IN  [w EXCEPT !.closure = @ \cup new, !.stack = rest \o Iter(new)]

\* fsm.py:99-104, one pass of `while stack:` of _eps_closure
eps_closure_pass(w) ==
    LET state == w.stack[Len(w.stack)]
        rest == SubSeq(w.stack, 1, Len(w.stack) - 1)
        new == eps_delta(w.fsm, state) \ w.closure
    IN  [w EXCEPT !.closure = @ \cup new, !.stack = rest \o Iter(new)]

\* convert.py:41-54, one pass of `while stack:` of convert_to_dfa
convert_to_dfa_pass(w) ==
    LET state_set == w.stack[Len(w.stack)]
        popped == [w EXCEPT !.stack = SubSeq(@, 1, Len(@) - 1)]
    IN  dfa_for_symbols(w.fsm, state_set, w.mapping[state_set],
                        Iter(w.fsm.ALPHABET), popped)

\* the automata the loops run on, and the state sets given to _eps_closure
WorkFSMs ==
    {NFA(a.states, a.alphabet, a.initial_state, a.accepting_states,
         a.transitions) : a \in HandArgs("NFA")}
    \cup {EpsNFA(a.states, a.alphabet, a.initial_state, a.accepting_states,
                 a.transitions, a.eps_transitions) : a \in HandArgs("EpsNFA")}
WorkInputs ==
    {DfaLocals(r.fsm) : r \in {x \in WorkFSMs : x.raised = "none" /\ x.fsm.kind = "NFA"}}
    \cup UNION {{ClosureLocals(r.fsm, S) : S \in SUBSET r.fsm.STATES} :
                   r \in {x \in WorkFSMs : x.raised = "none" /\ x.fsm.kind = "EpsNFA"}}

InitWork ==
    /\ session = "worklist"
    /\ parser \in WorkInputs
    /\ id_counter = 0
    /\ pool = << >>
    /\ nfa = NoConversion
    /\ dfa = NoConversion
    /\ last = [op |-> "none", raised |-> "none"]

\* the running call made one more pass of its loop
Passed(v) ==
    /\ parser' = [v EXCEPT !.pushed = @ \o Pushed(parser, v), !.passes = @ + 1]
    /\ UNCHANGED << session, id_counter, pool, nfa, dfa, last >>

ClosurePass ==
    /\ parser.status = "running"
    /\ parser.loop = "_eps_closure"
    /\ parser.stack # << >>
    /\ Len(parser.pushed) < MaxPushes
    /\ Passed(eps_closure_pass(parser))

\* fsm.py:105, return closure
ClosureReturn ==
    /\ parser.status = "running"
    /\ parser.loop = "_eps_closure"
    /\ parser.stack = << >>
    /\ parser' = [parser EXCEPT !.status = "done"]
    /\ last' = [op |-> "_eps_closure", raised |-> "none", out |-> parser.closure]
    /\ UNCHANGED << session, id_counter, pool, nfa, dfa >>

DfaPass ==
    /\ parser.status = "running"
    /\ parser.loop = "convert_to_dfa"
    /\ parser.stack # << >>
    /\ Len(parser.pushed) < MaxPushes
    /\ Passed(convert_to_dfa_pass(parser))

\* convert.py:55-61, return DFA(...)
DfaReturn ==
    /\ parser.status = "running"
    /\ parser.loop = "convert_to_dfa"
    /\ parser.stack = << >>
    /\ parser' = [parser EXCEPT !.status = "done"]
    /\ last' = [op |-> "convert_to_dfa", raised |-> "none",
                out |-> DFA(Values(parser.mapping), parser.fsm.ALPHABET,
                            parser.mapping[{parser.fsm.INITIAL_STATE}],
                            parser.accepting_states, parser.transitions)]
    /\ UNCHANGED << session, id_counter, pool, nfa, dfa >>

NextWork == ClosurePass \/ ClosureReturn \/ DfaPass \/ DfaReturn

\* a call that runs goes on running
SpecWork == InitWork /\ [][NextWork]_vars /\ WF_vars(NextWork)

(***************************************************************************)
(* SpecPeek: a Peekable (common/parser_utils.py) over a token stream and a *)
(* caller that calls peek() and next() in any order.  The locals are held  *)
(* in `parser`: the stream, the number `it` of tokens the underlying       *)
(* iterator has yielded, _peeked, and the tokens next() returned so far.   *)
(***************************************************************************)
MaxStreamLen == 3

\* next(self._it) on the iterator that has yielded `it` tokens of stream
iterator_next(stream, it) ==
    IF it < Len(stream)
    THEN [raised |-> "none", value |-> stream[it + 1], it |-> it + 1]
    ELSE [raised |-> "StopIteration", value |-> Token_eof("none"), it |-> it]

\* Peekable.__init__
Peekable(stream) ==
    [status |-> "open", stream |-> stream, it |-> 0, peeked |-> None, returned |-> << >>]

\* what a call returns or raises, and the Peekable after it
PeekableCall(raised, value, p) == [raised |-> raised, value |-> value, self |-> p]

\* Peekable.__next__, which Peekable.next calls
Peekable_next(p) ==
    IF p.peeked.some
    THEN PeekableCall("none", p.peeked.v, [p EXCEPT !.peeked = None])
    ELSE LET r == iterator_next(p.stream, p.it)
         IN  PeekableCall(r.raised, r.value, [p EXCEPT !.it = r.it])

\* peek that reads a token of the iterator at every call
Peekable_peek_uncached(p) ==
    LET r == iterator_next(p.stream, p.it)
    IN  IF r.raised # "none" THEN PeekableCall(r.raised, r.value, p)
        ELSE PeekableCall("none", r.value, [p EXCEPT !.it = r.it, !.peeked = Some(r.value)])

\* Peekable.peek
Peekable_peek(p) ==
    IF ~p.peeked.some
    THEN LET r == iterator_next(p.stream, p.it)
         IN  IF r.raised # "none" THEN PeekableCall(r.raised, r.value, p)
             ELSE PeekableCall("none", r.value,
                               [p EXCEPT !.it = r.it, !.peeked = Some(r.value)])
    ELSE PeekableCall("none", p.peeked.v, p)

\* the token streams a Peekable is made over
StreamTokens ==
    {Token("IDENT", Some(<< "a" >>)), Token("STAR", None), Token_eof("EOF")}
TokenStreams == UNION {[1..n -> StreamTokens] : n \in 0..MaxStreamLen}

InitPeek ==
    /\ session = "peekable"
    /\ \E stream \in TokenStreams : parser = Peekable(stream)
    /\ id_counter = 0
    /\ pool = << >>
    /\ nfa = NoConversion
    /\ dfa = NoConversion
    /\ last = [op |-> "none", raised |-> "none"]

\* tokens.peek()
PeekCall ==
    /\ parser.status = "open"
    /\ LET call == Peekable_peek(parser)
       IN  /\ parser' = [call.self EXCEPT !.status =
                            IF call.raised = "none" THEN "open" ELSE call.raised]
           /\ last' = [op |-> "peek", raised |-> call.raised, out |-> call.value]
    /\ UNCHANGED << session, id_counter, pool, nfa, dfa >>

\* tokens.next()
NextCall ==
    /\ parser.status = "open"
    /\ LET call == Peekable_next(parser)
       IN  /\ parser' = [call.self EXCEPT
                            !.status = IF call.raised = "none" THEN "open"
                                       ELSE call.raised,
                            !.returned = IF call.raised = "none"
                                         THEN Append(@, call.value) ELSE @]
           /\ last' = [op |-> "next", raised |-> call.raised, out |-> call.value]
    /\ UNCHANGED << session, id_counter, pool, nfa, dfa >>

NextPeek == PeekCall \/ NextCall

SpecPeek == InitPeek /\ [][NextPeek]_vars

(***************************************************************************)
(* Properties.                                                             *)
(***************************************************************************)
\* the words of length at most MaxWordLen over an alphabet
WordsOver(alphabet) == UNION {[1..n -> alphabet] : n \in 0..MaxWordLen}

\* membership of a word in the regular language of a regex
RECURSIVE InLanguage(_, _)
InLanguage(e, w) ==
    IF e.class = "ast.Symbol" THEN w = << e.value >>
    ELSE IF e.class = "ast.Or" THEN InLanguage(e.lhs, w) \/ InLanguage(e.rhs, w)
    ELSE IF e.class = "ast.Concat" THEN
        \E k \in 0..Len(w) : /\ InLanguage(e.lhs, SubSeq(w, 1, k))
                              /\ InLanguage(e.rhs, SubSeq(w, k + 1, Len(w)))
    ELSE \/ w = << >>
         \/ \E k \in 1..Len(w) : /\ InLanguage(e.inner, SubSeq(w, 1, k))
                                  /\ InLanguage(e, SubSeq(w, k + 1, Len(w)))

\* the pool entries a Thompson construction built for a regex
Built == {i \in DOMAIN pool : pool[i].expr # NoExpr}

\* C1: for a regex and a word over its symbols, accepts on the DFA obtained by
\* convert_to_dfa(convert_to_nfa(.)) from the regex's EpsNFA returns the boolean
\* that accepts on the EpsNFA returns.
C1_RoundTrip ==
    \A i \in Built :
        (nfa.of = pool[i].fsm /\ dfa.of = nfa.fsm) =>
            \A w \in WordsOver(pool[i].fsm.ALPHABET) :
                DFA_accepts(dfa.fsm, w) = EpsNFA_accepts(pool[i].fsm, w)

\* C2: the EpsNFA the Thompson construction builds for a regex e accepts a
\* word w if and only if w belongs to the regular language of e.
C2_ThompsonLanguage ==
    \A i \in Built : \A w \in Words :
        EpsNFA_accepts(pool[i].fsm, w).value = InLanguage(pool[i].expr, w)

\* C3: for an NFA n and a word w over n's alphabet, convert_to_dfa(n).accepts(w)
\* equals n.accepts(w).
C3_SubsetConstruction ==
    dfa.fsm # NoFSM =>
        \A w \in WordsOver(dfa.of.ALPHABET) :
            DFA_accepts(dfa.fsm, w) = NFA_accepts(dfa.of, w)

\* C4: for an EpsNFA e and every word w, convert_to_nfa(e).accepts(w) equals
\* e.accepts(w).
C4_EpsilonElimination ==
    nfa.fsm # NoFSM =>
        \A w \in Words : NFA_accepts(nfa.fsm, w) = EpsNFA_accepts(nfa.of, w)

\* an epsilon transition of the converted EpsNFA is needed to accept some word
C4_Witness ==
    /\ nfa.fsm # NoFSM
    /\ \E w \in Words : /\ NFA_accepts(nfa.fsm, w).value
                        /\ ~NFA_accepts(nfa.of, w).value

\* C5: the DFA d = convert_to_dfa(n) has an entry for every pair of a state of
\* d and a symbol of n's alphabet, and its target is a state of d; a state
\* whose successor set on a symbol is empty (the dead state "{}" among them)
\* goes to the dead state; accepts on d raises no KeyError on a word over the
\* alphabet.
C5_Totality ==
    dfa.fsm # NoFSM =>
        LET d == dfa.fsm
            n == dfa.of
        IN  /\ \A s \in d.STATES, a \in n.ALPHABET :
                 /\ << s, a >> \in DOMAIN d.TRANSITIONS
                 /\ d.TRANSITIONS[<< s, a >>] \in d.STATES
            /\ \A S \in SUBSET n.STATES, a \in n.ALPHABET :
                 (collapse_state(S) \in d.STATES /\ NFA_next_states(n, S, a) = {})
                    => /\ collapse_state({}) \in d.STATES
                       /\ << collapse_state(S), a >> \in DOMAIN d.TRANSITIONS
                       /\ d.TRANSITIONS[<< collapse_state(S), a >>] = collapse_state({})
            /\ \A w \in WordsOver(n.ALPHABET) : DFA_accepts(d, w).raised = "none"

\* a DFA over two symbols with the dead state and two more states
C5_Witness ==
    /\ dfa.fsm # NoFSM
    /\ collapse_state({}) \in dfa.fsm.STATES
    /\ Cardinality(dfa.fsm.STATES) >= 3
    /\ Cardinality(dfa.of.ALPHABET) = 2

\* the structural invariants of an automaton
Valid(f) ==
    /\ f.INITIAL_STATE \in f.STATES
    /\ f.ACCEPTING_STATES \subseteq f.STATES
    /\ \A key \in DOMAIN f.TRANSITIONS :
         /\ key[1] \in f.STATES
         /\ key[2] \in f.ALPHABET
         /\ IF f.kind = "DFA" THEN f.TRANSITIONS[key] \in f.STATES
                              ELSE f.TRANSITIONS[key] \subseteq f.STATES
    /\ f.kind = "EpsNFA" =>
         \A s \in DOMAIN f.EPS_TRANSITIONS :
            s \in f.STATES /\ f.EPS_TRANSITIONS[s] \subseteq f.STATES

\* the automaton a constructor call asks for
Asked(kind, a) ==
    [kind |-> kind,
     STATES |-> a.states,
     ALPHABET |-> a.alphabet,
     INITIAL_STATE |-> a.initial_state,
     ACCEPTING_STATES |-> a.accepting_states,
     TRANSITIONS |-> a.transitions,
     EPS_TRANSITIONS |-> a.eps_transitions]

\* every automaton there is: the results, the arguments of the conversions, and
\* the arguments and renamed operands of the latest Thompson step
Existing ==
    Objects \cup ({nfa.of, dfa.of} \ {NoFSM})
            \cup (IF "step" \in DOMAIN last
                  THEN {last.step.inputs[k] : k \in DOMAIN last.step.inputs}
                  ELSE {})
            \cup (IF "step" \in DOMAIN last /\ "operands" \in DOMAIN last.step
                  THEN {last.step.operands[k] : k \in DOMAIN last.step.operands}
                  ELSE {})

AllValid == \A f \in Existing : Valid(f)

\* a constructor call, by the session or by parse_automaton, that raises leaves
\* no automaton behind, and a call with violating arguments raises FSMError
Refused ==
    /\ (last'.op = "construct" /\ ~Valid(Asked(last'.kind, last'.args))) =>
            last'.raised = "FSMError"
    /\ (last'.op \in {"construct", "parse_automaton"} /\ last'.raised # "none") =>
            /\ pool' = pool
            /\ "out" \in DOMAIN last' => "fsm" \notin DOMAIN last'.out

\* C6: every automaton that exists satisfies the structural invariants, and a
\* constructor call whose arguments violate one raises FSMError and yields no
\* automaton.
C6_Invariants == []AllValid /\ [][Refused]_vars

\* a constructor call was refused for a transition target that is no state
C6_Witness ==
    /\ last.op = "construct"
    /\ last.raised = "FSMError"
    /\ last.out.check = 5

\* C7: parse_automaton ends in a ParserError, and returns no automaton, for a
\* spec that declares both a single-target transition and a set-target or
\* epsilon transition, whichever of the two statements comes first.
C7_StyleConflict ==
    (\E t1 \in parser.declared, t2 \in parser.declared :
        /\ t1.symbol.some /\ t1.target.type = "IDENT"
        /\ (~t2.symbol.some \/ t2.target.type = "SET"))
    => parser.status \in {"parsing", "ParserError"}

\* C8: accepts on a DFA follows the transition entries from the initial state
\* along the word and returns whether the state it ends in is accepting; when
\* an entry is missing on the way the call raises KeyError and returns nothing.
C8_DFAFold ==
    (last.op = "accepts" /\ last.on.kind = "DFA") =>
        LET d == last.on
            w == last.word
            runs == {r \in [0..Len(w) -> d.STATES] :
                        /\ r[0] = d.INITIAL_STATE
                        /\ \A k \in 1..Len(w) :
                             /\ << r[k - 1], w[k] >> \in DOMAIN d.TRANSITIONS
                             /\ d.TRANSITIONS[<< r[k - 1], w[k] >>] = r[k]}
        IN  IF runs = {}
            THEN /\ last.call.out.raised = "KeyError"
                 /\ "value" \notin DOMAIN last.call.out
            ELSE \A r \in runs :
                    last.call.out = [raised |-> "none",
                                     value |-> r[Len(w)] \in d.ACCEPTING_STATES]

\* accepts raised KeyError after it had followed an entry
C8_Witness ==
    /\ last.op = "accepts"
    /\ last.on.kind = "DFA"
    /\ last.raised = "KeyError"
    /\ Len(last.word) >= 2
    /\ << last.on.INITIAL_STATE, last.word[1] >> \in DOMAIN last.on.TRANSITIONS

\* C9: in a star, concat or union step the state sets of the renamed operands
\* are disjoint from each other and from the new state, and the result has
\* |operand| + 1 states for star, |lhs| + |rhs| for concat and
\* |lhs| + |rhs| + 1 for union.
C9_Disjoint ==
    (/\ last.op \in {"star", "concat", "union", "regex_to_epsnfa"}
     /\ last.raised = "none"
     /\ "operands" \in DOMAIN last.step) =>
        LET step == last.step
            ops == step.operands
            new == {step.new_state[k] : k \in DOMAIN step.new_state}
            Size(f) == Cardinality(f.STATES)
        IN  /\ \A m \in DOMAIN ops, n \in DOMAIN ops :
                 m # n => ops[m].STATES \cap ops[n].STATES = {}
            /\ \A m \in DOMAIN ops : new \cap ops[m].STATES = {}
            /\ Len(ops) = Len(step.inputs)
            /\ Size(step.out.fsm) =
                 Cardinality(new) + Size(step.inputs[1])
                   + (IF Len(ops) = 2 THEN Size(step.inputs[2]) ELSE 0)
            /\ last.op = "star" => Len(ops) = 1 /\ Cardinality(new) = 1
            /\ last.op = "concat" => Len(ops) = 2 /\ Cardinality(new) = 0
            /\ last.op = "union" => Len(ops) = 2 /\ Cardinality(new) = 1

\* a union step merged operands of different sizes
C9_Witness ==
    /\ last.op = "union"
    /\ last.raised = "none"
    /\ Cardinality(last.step.inputs[1].STATES) # Cardinality(last.step.inputs[2].STATES)

\* the operations C10 is about, and the record of the latest call of one
FrameOps == {"convert_to_nfa", "convert_to_dfa", "accepts", "star", "concat", "union"}
LastCall == IF "step" \in DOMAIN last THEN last.step ELSE last.call

\* the step leaves every automaton of the pool as it is, and the latest results
\* of the conversions unless it replaces them by a new result
FrameStep ==
    /\ \A k \in DOMAIN pool : k \in DOMAIN pool' /\ pool'[k] = pool[k]
    /\ nfa'.fsm # nfa.fsm => last'.op = "convert_to_nfa"
    /\ dfa'.fsm # dfa.fsm => last'.op = "convert_to_dfa"

\* the result of the latest call holds no dict or set object of an automaton
\* that was there before the call
NoBorrow ==
    last.op \in FrameOps =>
        LET result == IF last.raised = "none" /\ last.op # "accepts"
                      THEN {LastCall.out.fsm} ELSE {}
        IN  LastCall.borrows \cap (Objects \ result) = {}

RECURSIVE Derives(_, _, _)
Derives(level, e, ts) ==
    LET n == Len(ts)
    IN  IF level = 0 THEN
            \/ /\ e.class = "ast.Symbol"
               /\ ts = << Token("IDENT", Some(e.value)) >>
            \/ /\ n >= 3
               /\ ts[1].type = "LPAREN"
               /\ ts[n].type = "RPAREN"
               /\ Derives(3, e, SubSeq(ts, 2, n - 1))
        ELSE IF level = 1 THEN
            \/ Derives(0, e, ts)
            \/ /\ e.class = "ast.Star"
               /\ n >= 2
               /\ ts[n].type = "STAR"
               /\ Derives(0, e.inner, SubSeq(ts, 1, n - 1))
        ELSE IF level = 2 THEN
            \/ Derives(1, e, ts)
            \/ /\ e.class = "ast.Concat"
               /\ \E k \in 1..(n - 1) :
                    /\ Derives(2, e.lhs, SubSeq(ts, 1, k))
                    /\ Derives(1, e.rhs, SubSeq(ts, k + 1, n))
        ELSE
            \/ Derives(2, e, ts)
            \/ /\ e.class = "ast.Or"
               /\ \E k \in 2..(n - 1) :
                    /\ ts[k].type = "OR"
                    /\ Derives(3, e.lhs, SubSeq(ts, 1, k - 1))
                    /\ Derives(2, e.rhs, SubSeq(ts, k + 1, n))

\* the token stream of a source text, given by the values of its tokens
Ident(a) == Token("IDENT", Some(<< a >>))
Stream(ts) == Append(ts, Token_eof("EOF"))
Sym(a) == SymbolNode(<< a >>)
ParsedTo(ts, e) ==
    last.tokens = Stream(ts) => last.raised = "none" /\ last.out.expr = e

\* C11: whenever parse_regex returns a tree for a token stream, the tree is
\* the one the grammar with '*' above concatenation above '|' and with
\* left-leaning binary concatenation and alternation gives the stream, and the
\* whole stream was read; a b c gives Concat(Concat(a,b),c), a|b|c gives
\* Or(Or(a,b),c), and a|bc* gives Or(a, Concat(b, Star(c))).
C11_Precedence ==
    last.op = "parse_regex" =>
        /\ last.raised = "none" =>
            /\ Derives(3, last.out.expr, SubSeq(last.tokens, 1, Len(last.tokens) - 1))
            /\ last.out.i = Len(last.tokens) + 1
        /\ ParsedTo(<< Ident("a"), Ident("b"), Ident("c") >>,
                    ConcatNode(ConcatNode(Sym("a"), Sym("b")), Sym("c")))
        /\ ParsedTo(<< Ident("a"), Token("OR", None), Ident("b"),
                       Token("OR", None), Ident("c") >>,
                    OrNode(OrNode(Sym("a"), Sym("b")), Sym("c")))
        /\ ParsedTo(<< Ident("a"), Token("OR", None), Ident("b"), Ident("c"),
                       Token("STAR", None) >>,
                    OrNode(Sym("a"), ConcatNode(Sym("b"), StarNode(Sym("c")))))

C11_Witness ==
    /\ last.op = "parse_regex"
    /\ last.raised = "none"
    /\ last.tokens = Stream(<< Ident("a"), Token("OR", None), Ident("b"),
                               Ident("c"), Token("STAR", None) >>)

\* the EpsNFAs that exist
EpsNFAs == {f \in PoolFSMs : f.kind = "EpsNFA"}

\* e has an epsilon path from a state back to itself
Cyclic(e) ==
    \E s \in e.STATES :
        \E t \in eps_delta(e, s) : s \in eps_closure(e, {t})

\* C12: for every EpsNFA e and every set S of its states, _eps_closure(S)
\* contains S, contains the epsilon successors of each of its members, and is
\* its own _eps_closure, also when the epsilon relation has cycles.
C12_Closure ==
    \A e \in EpsNFAs :
        \A S \in SUBSET e.STATES :
            LET closure == eps_closure(e, S)
            IN  /\ S \subseteq closure
                /\ \A s \in closure : eps_delta(e, s) \subseteq closure
                /\ eps_closure(e, closure) = closure

\* an EpsNFA with a cyclic epsilon relation in which some state reaches a
\* state two epsilon edges away
C12_Witness ==
    \E e \in EpsNFAs :
        /\ Cyclic(e)
        /\ \E s \in e.STATES :
            \E t \in eps_closure(e, {s}) : t # s /\ t \notin eps_delta(e, s)

EndMarkers(tokens) == {k \in DOMAIN tokens : tokens[k].type = "EOF"}

LexSafe ==
    /\ parser.status = "lexing" => EndMarkers(parser.tokens) = {}
    /\ parser.status = "done" =>
        /\ EndMarkers(parser.tokens) = {Len(parser.tokens)}
        /\ \A k \in 1..(Len(parser.tokens) - 1) :
            ~isspace(parser.src[parser.at[k] + 1])
        /\ (\A k \in DOMAIN parser.src : isspace(parser.src[k]))
            => parser.tokens = << Token_eof("EOF") >>

\* C13: the generator generic_lexer returns for a source text ends after
\* finitely many tokens, with a LexerError or with the end marker; when no
\* LexerError occurs the end marker is its last token and no other token is
\* one, no token was scanned at a whitespace character, and the empty and the
\* whitespace-only text yield the end marker alone.
C13_Lexer == []LexSafe /\ <>(parser.status \in {"done", "LexerError"})

\* a text with whitespace between two tokens was lexed to its end
C13_Witness ==
    /\ session = "lex"
    /\ parser.status = "done"
    /\ Len(parser.tokens) = 3
    /\ parser.at[2] - parser.at[1] > 1
    /\ \E k \in DOMAIN parser.src : isspace(parser.src[k])

\* the epsilon relation of an EpsNFA, as a set of edges
EpsEdges(e) == {<< s, t >> : s \in DOMAIN e.EPS_TRANSITIONS, t \in e.STATES} \cap
               {x \in e.STATES \X e.STATES : x[2] \in eps_delta(e, x[1])}

\* C14: star(e) returns an automaton with a new state s as initial state and
\* {s} as accepting set, whose epsilon relation is the renamed operand's
\* epsilon relation plus the edge from s to the operand's initial state and
\* one edge to s from every accepting state of the operand.
C14_StarShape ==
    (last.op = "star" /\ last.raised = "none") =>
        LET operand == last.step.operands[1]
            s == last.step.new_state[1]
            out == last.step.out.fsm
        IN  /\ s \notin operand.STATES
            /\ out.INITIAL_STATE = s
            /\ out.ACCEPTING_STATES = {s}
            /\ EpsEdges(out) =
                 EpsEdges(operand) \cup {<< s, operand.INITIAL_STATE >>}
                   \cup {<< acc, s >> : acc \in operand.ACCEPTING_STATES}

\* C15: a state of convert_to_dfa(n) is accepting if and only if the set of
\* states of n it stands for intersects n's accepting set, the start set
\* {initial} included.
C15_AcceptingSets ==
    dfa.fsm # NoFSM =>
        \A S \in SUBSET dfa.of.STATES :
            collapse_state(S) \in dfa.fsm.STATES =>
                (collapse_state(S) \in dfa.fsm.ACCEPTING_STATES
                    <=> S \cap dfa.of.ACCEPTING_STATES # {})

\* the transitions a set of transition statements declares, and the
\* transitions an automaton holds: ordinary ones as (state, symbol, target),
\* epsilon ones as (state, target)
DeclaredTargets(token) ==
    IF token.target.type = "SET" THEN token.target.states ELSE {token.target.state}
DeclaredOrdinary(tokens) ==
    UNION {{<< t.state, t.symbol.v, q >> : q \in DeclaredTargets(t)} :
             t \in {x \in tokens : x.symbol.some}}
DeclaredEpsilon(tokens) ==
    UNION {{<< t.state, q >> : q \in DeclaredTargets(t)} :
             t \in {x \in tokens : ~x.symbol.some}}
HeldOrdinary(f) ==
    UNION {{<< k[1], k[2], q >> : q \in TargetsOf(f.kind, f.TRANSITIONS[k])} :
             k \in DOMAIN f.TRANSITIONS}
HeldEpsilon(f) ==
    IF f.kind # "EpsNFA" THEN {}
    ELSE UNION {{<< s, q >> : q \in f.EPS_TRANSITIONS[s]} :
                  s \in DOMAIN f.EPS_TRANSITIONS}

\* C16: the automaton parse_automaton returns holds exactly the transitions,
\* ordinary and epsilon, that the transition statements of the spec declared.
C16_DeclaredKept ==
    (last.op = "parse_automaton" /\ last.raised = "none") =>
        /\ HeldOrdinary(last.out.fsm) = DeclaredOrdinary(parser.declared)
        /\ HeldEpsilon(last.out.fsm) = DeclaredEpsilon(parser.declared)

\* C17: concat(l, r) returns an automaton with the renamed l's initial state,
\* the renamed r's accepting set, every ordinary transition of both renamed
\* operands, and an epsilon relation that is the union of theirs plus one edge
\* from every accepting state of the renamed l to the renamed r's initial state.
C17_ConcatShape ==
    (last.op = "concat" /\ last.raised = "none") =>
        LET lhs == last.step.operands[1]
            rhs == last.step.operands[2]
            out == last.step.out.fsm
        IN  /\ out.INITIAL_STATE = lhs.INITIAL_STATE
            /\ out.ACCEPTING_STATES = rhs.ACCEPTING_STATES
            /\ HeldOrdinary(lhs) \cup HeldOrdinary(rhs) \subseteq HeldOrdinary(out)
            /\ EpsEdges(out) =
                 EpsEdges(lhs) \cup EpsEdges(rhs)
                   \cup {<< acc, rhs.INITIAL_STATE >> : acc \in lhs.ACCEPTING_STATES}

\* a concat whose left operand has an accepting state with epsilon edges
C17_Witness ==
    /\ last.op = "concat"
    /\ last.raised = "none"
    /\ \E acc \in last.step.operands[1].ACCEPTING_STATES :
          eps_delta(last.step.operands[1], acc) # {}

\* the automata the Thompson steps of the session returned have no state name
\* in common
PoolDisjoint ==
    \A i \in DOMAIN pool, j \in DOMAIN pool :
        i # j => pool[i].fsm.STATES \cap pool[j].fsm.STATES = {}

\* a call leaves the counter where it was or moves it up, by the number of
\* states of the automaton it returned: each of them is a fresh state
CounterStep ==
    /\ id_counter' >= id_counter
    /\ IF Len(pool') = Len(pool) + 1
       THEN id_counter' = id_counter + Cardinality(pool'[Len(pool')].fsm.STATES)
       ELSE id_counter' = id_counter

\* C18: over any sequence of from_symbol, star, concat, union and
\* regex_to_epsnfa calls the shared counter grows by one per fresh state and
\* never goes down, and no state name is issued twice: the automata the calls
\* returned have pairwise disjoint state names.
C18_Counter == []PoolDisjoint /\ [][CounterStep]_vars

\* three steps returned, the last one a union that renamed both operands
C18_Witness ==
    /\ session = "thompson"
    /\ Len(pool) = 3
    /\ last.op = "union"
    /\ id_counter >= 9

\* the states an epsilon path, the empty one included, leads to from a state
\* of S: the least set that holds S and the epsilon successors of its members
RECURSIVE EpsReach(_, _)
EpsReach(e, S) ==
    LET T == S \cup UNION {Get(e.EPS_TRANSITIONS, s, {}) : s \in S}
    IN  IF T = S THEN S ELSE EpsReach(e, T)

\* the states the symbol a leads to from a state of S
Targets(e, S, a) == UNION {Get(e.TRANSITIONS, << s, a >>, {}) : s \in S}

\* C19: for every state q and symbol a of an EpsNFA e, convert_to_nfa(e) has
\* an entry (q, a) if and only if the epsilon closure of the a-targets of the
\* epsilon closure of {q} is not empty, and the entry is that closed set.
C19_Transitions ==
    nfa.fsm # NoFSM =>
        \A q \in nfa.of.STATES, a \in nfa.of.ALPHABET :
            LET closed == EpsReach(nfa.of, Targets(nfa.of, EpsReach(nfa.of, {q}), a))
            IN  /\ << q, a >> \in DOMAIN nfa.fsm.TRANSITIONS <=> closed # {}
                /\ closed # {} => nfa.fsm.TRANSITIONS[<< q, a >>] = closed

\* an entry for a state that has no transition of its own on the symbol, with
\* a target that only an epsilon edge after the symbol leads to
C19_Witness ==
    /\ nfa.fsm # NoFSM
    /\ \E k \in DOMAIN nfa.fsm.TRANSITIONS :
        /\ Targets(nfa.of, {k[1]}, k[2]) = {}
        /\ nfa.fsm.TRANSITIONS[k] # Targets(nfa.of, EpsReach(nfa.of, {k[1]}), k[2])

\* the states some path of ordinary and epsilon edges leads to from a state of S
RECURSIVE Reachable(_, _)
Reachable(e, S) ==
    LET T == S \cup UNION {Get(e.EPS_TRANSITIONS, s, {}) : s \in S}
               \cup UNION {Targets(e, S, a) : a \in e.ALPHABET}
    IN  IF T = S THEN S ELSE Reachable(e, T)

\* C20: convert_to_nfa(e) has e's state set, alphabet and initial state, and
\* its accepting states are the states whose epsilon closure intersects e's
\* accepting set.
C20_Kept ==
    nfa.fsm # NoFSM =>
        /\ nfa.fsm.STATES = nfa.of.STATES
        /\ nfa.fsm.ALPHABET = nfa.of.ALPHABET
        /\ nfa.fsm.INITIAL_STATE = nfa.of.INITIAL_STATE
        /\ nfa.fsm.ACCEPTING_STATES =
             {q \in nfa.of.STATES :
                EpsReach(nfa.of, {q}) \cap nfa.of.ACCEPTING_STATES # {}}

\* a converted EpsNFA with a state no path from the initial state leads to,
\* and with an accepting set that differs from the set of its argument
C20_Unpruned ==
    /\ nfa.fsm # NoFSM
    /\ Reachable(nfa.of, {nfa.of.INITIAL_STATE}) # nfa.of.STATES
    /\ nfa.fsm.ACCEPTING_STATES # nfa.of.ACCEPTING_STATES

\* the epsilon closure of a set of states of an NFA or EpsNFA; an NFA has no
\* epsilon edges
Closed(f, S) == IF f.kind = "EpsNFA" THEN EpsReach(f, S) ELSE S

\* the active states of f after the word w: the closed start set, replaced at
\* every symbol by the closed union of the targets of its members
RECURSIVE ActiveAfter(_, _)
ActiveAfter(f, w) ==
    IF w = << >> THEN Closed(f, {f.INITIAL_STATE})
    ELSE Closed(f, Targets(f, ActiveAfter(f, SubSeq(w, 1, Len(w) - 1)), w[Len(w)]))

\* C21: accepts on an NFA or EpsNFA returns whether the set of active states
\* after the word intersects the accepting set, and raises nothing, also when
\* an entry is missing or a symbol of the word is outside the alphabet.
C21_ActiveSets ==
    (last.op = "accepts" /\ last.on.kind \in {"NFA", "EpsNFA"}) =>
        last.call.out =
            [raised |-> "none",
             value |-> ActiveAfter(last.on, last.word)
                         \cap last.on.ACCEPTING_STATES # {}]

\* accepts on an EpsNFA, given a word whose first symbol leads somewhere and
\* whose second symbol is outside the alphabet
C21_Witness ==
    /\ last.op = "accepts"
    /\ last.on.kind = "EpsNFA"
    /\ Len(last.word) >= 2
    /\ ActiveAfter(last.on, SubSeq(last.word, 1, 1)) # {}
    /\ last.word[2] \notin last.on.ALPHABET
    /\ last.raised = "none"

\* the transition statements of each kind among a set of them
EpsilonStmts(tokens) == {t \in tokens : ~t.symbol.some}
SetStmts(tokens) == {t \in tokens : t.symbol.some /\ t.target.type = "SET"}
SingleStmts(tokens) == {t \in tokens : t.symbol.some /\ t.target.type = "IDENT"}

\* C22: the automaton parse_automaton returns is an EpsNFA built from the
\* set-target map and the epsilon map if an epsilon transition was declared,
\* otherwise an NFA if a set-target transition was declared, otherwise a DFA
\* built from the single-target map.
C22_ResultClass ==
    (last.op = "parse_automaton" /\ last.raised = "none") =>
        LET out == last.out.fsm
            D == parser.declared
        IN  /\ out.kind = IF EpsilonStmts(D) # {} THEN "EpsNFA"
                          ELSE IF SetStmts(D) # {} THEN "NFA"
                          ELSE "DFA"
            /\ out.kind = "EpsNFA" =>
                /\ HeldOrdinary(out) = DeclaredOrdinary(SetStmts(D))
                /\ HeldEpsilon(out) = DeclaredEpsilon(EpsilonStmts(D))
            /\ out.kind = "NFA" => HeldOrdinary(out) = DeclaredOrdinary(SetStmts(D))
            /\ out.kind = "DFA" => HeldOrdinary(out) = DeclaredOrdinary(SingleStmts(D))

\* an EpsNFA returned for a spec with a set-target and an epsilon transition
C22_Witness ==
    /\ last.op = "parse_automaton"
    /\ last.raised = "none"
    /\ last.out.fsm.kind = "EpsNFA"
    /\ SetStmts(parser.declared) # {}

\* parse_automaton read the end of its input
AtEOF == last.op = "parse_automaton" /\ "out" \in DOMAIN last

\* a field of the spec was not assigned
FieldMissing == \E field \in Fields : ~parser[field].some

\* C23: when parse_automaton reaches the end of a spec that leaves one of the
\* fields Q, A, I, F unassigned, or declares no transition with a symbol (none
\* at all, or epsilon transitions only), it raises a parse failure and returns
\* no automaton.
C23_Required ==
    (AtEOF /\ (FieldMissing
               \/ SetStmts(parser.declared) \cup SingleStmts(parser.declared) = {}))
        => /\ last.raised = "ParserError"
           /\ pool = << >>

\* the end of a spec with all four fields and an epsilon transition only
C23_Witness ==
    /\ AtEOF
    /\ ~FieldMissing
    /\ EpsilonStmts(parser.declared) # {}
    /\ EpsilonStmts(parser.declared) = parser.declared
    /\ last.raised = "ParserError"

\* two transition statements for the same (state, symbol) pair, or two epsilon
\* statements for the same state
SameKey(t, u) ==
    /\ t.state = u.state
    /\ t.symbol.some = u.symbol.some
    /\ t.symbol.some => t.symbol.v = u.symbol.v

\* the statement ended the parse with a parse failure and changed no
\* definition
Refusal ==
    /\ parser'.status = "ParserError"
    /\ last'.raised = "ParserError"
    /\ \A name \in Fields \cup {"dfa_transitions", "nfa_transitions", "eps_transitions"} :
          parser'[name] = parser[name]
    /\ pool' = pool

RepeatRefused ==
    /\ \A field \in Fields : \A value \in FieldValues(field) :
          (ParseField(field, value) /\ parser[field].some) => Refusal
    /\ \A token \in TransTokens :
          (ParseTransition(token) /\ \E t \in parser.declared : SameKey(t, token))
              => Refusal

\* C24: a second assignment of a field, a second transition for a (state,
\* symbol) pair and a second epsilon transition for a state each raise a parse
\* failure and leave the first definition as it is; after a parse failure no
\* automaton is returned.
C24_NoRepeat ==
    /\ [](parser.status = "ParserError" => pool = << >>)
    /\ [][RepeatRefused]_vars

\* a parse that failed at a second epsilon transition for a state
C24_Witness ==
    /\ session = "parse"
    /\ parser.status = "ParserError"
    /\ parser.eps_transitions.some
    /\ \E t \in parser.declared, u \in parser.declared :
          t # u /\ SameKey(t, u) /\ ~t.symbol.some

\* the types of the first n tokens lex_transition yields from index i of src,
\* fewer if the lexer fails or ends before
RECURSIVE TokenTypes(_, _, _)
TokenTypes(src, i, n) ==
    IF n = 0 THEN << >>
    ELSE Only({IF r.raised # "none" THEN << >>
               ELSE << r.token.type >> \o TokenTypes(src, r.i, n - 1)
               : r \in {generator_next("transition", src, i)}})

\* the token scanned at index i of src is EPS only if src has '' there
EpsFromEmptyQuotes(src) ==
    \A i \in 0..(Len(src) - 1) :
        LET r == transition_next_token(src, i)
        IN  (r.raised = "none" /\ r.token.type = "EPS")
                => /\ i + 2 <= Len(src)
                   /\ src[i + 1] = "'" /\ src[i + 2] = "'"
                   /\ r.i = i + 2

\* C25: the transition lexer yields EPS only for the empty quoted identifier
\* '', a returned epsilon transition has a set as its target, and a text
\* whose tokens are ( IDENT , EPS ) -> IDENT raises a parse failure.
C25_EpsilonTarget ==
    last.op = "parse_transition" =>
        /\ EpsFromEmptyQuotes(last.src)
        /\ (last.raised = "none" /\ ~last.out.symbol.some) => last.out.target.type = "SET"
        /\ TokenTypes(last.src, 0, 7)
               = << "LPRENT", "IDENT", "COMMA", "EPS", "RPRENT", "ARROW", "IDENT" >>
             => last.raised = "ParserError"

\* parse_transition was given an epsilon transition to a bare state
C25_Witness ==
    /\ last.op = "parse_transition"
    /\ last.src = << "(", "b", ",", "'", "'", ")", "-", ">", "c" >>
    /\ last.raised = "ParserError"

\* C26: parse_transition returns a transition only if the end marker is the
\* token that follows the target, so that nothing but white space is left of
\* the text.
C26_WholeBlob ==
    (last.op = "parse_transition" /\ last.raised = "none") =>
        LET r == generator_next("transition", last.src, last.out.i)
        IN  r.raised = "none" /\ r.token.type = "EOF"

\* the tokens ts are derivable from the grammar at the given level: atom :=
\* IDENT | '(' or ')' (0), star := atom '*'? (1), concat := star star* (2),
\* or := concat ('|' concat)* (3)
RECURSIVE Derivable(_, _)
Derivable(level, ts) ==
    LET n == Len(ts)
    IN  IF level = 0 THEN
            \/ n = 1 /\ ts[1].type = "IDENT"
            \/ /\ n >= 3
               /\ ts[1].type = "LPAREN"
               /\ ts[n].type = "RPAREN"
               /\ Derivable(3, SubSeq(ts, 2, n - 1))
        ELSE IF level = 1 THEN
            \/ Derivable(0, ts)
            \/ n >= 2 /\ ts[n].type = "STAR" /\ Derivable(0, SubSeq(ts, 1, n - 1))
        ELSE IF level = 2 THEN
            \/ Derivable(1, ts)
            \/ \E k \in 1..(n - 1) :
                  Derivable(2, SubSeq(ts, 1, k)) /\ Derivable(1, SubSeq(ts, k + 1, n))
        ELSE
            \/ Derivable(2, ts)
            \/ \E k \in 2..(n - 1) :
                  /\ ts[k].type = "OR"
                  /\ Derivable(3, SubSeq(ts, 1, k - 1))
                  /\ Derivable(2, SubSeq(ts, k + 1, n))

\* parse_regex ended in a parse failure on the stream of ts
Rejected(ts) ==
    last.tokens = Stream(ts) => last.raised = "ParserError"

\* C27: parse_regex returns a tree for a token stream if and only if the
\* tokens before the end marker are derivable from the grammar; on every
\* other stream it raises a parse failure, no other exception, and returns no
\* tree: so on the empty input, on (), on a**, on (a and on a).
C27_Grammar ==
    last.op = "parse_regex" =>
        /\ last.raised = "none"
              <=> Derivable(3, SubSeq(last.tokens, 1, Len(last.tokens) - 1))
        /\ last.raised \in {"none", "ParserError"}
        /\ last.raised # "none" => last.out.expr = NoExpr
        /\ last.raised = "none" => last.out.expr # NoExpr
        /\ Rejected(<< >>)
        /\ Rejected(<< Token("LPAREN", None), Token("RPAREN", None) >>)
        /\ Rejected(<< Ident("a"), Token("STAR", None), Token("STAR", None) >>)
        /\ Rejected(<< Token("LPAREN", None), Ident("a") >>)
        /\ Rejected(<< Ident("a"), Token("RPAREN", None) >>)

\* parse_regex refused a stream whose tree is followed by further tokens
C27_Witness ==
    /\ last.op = "parse_regex"
    /\ last.raised = "ParserError"
    /\ last.tokens = Stream(<< Ident("a"), Token("RPAREN", None) >>)

\* the state sets convert_to_dfa discovers for n: those reachable from
\* {initial} by the successor sets of the symbols
RECURSIVE DiscoveredFrom(_, _)
DiscoveredFrom(n, seen) ==
    LET more == seen \cup {UNION {NFA_delta(n, p, a) : p \in S} :
                              S \in seen, a \in n.ALPHABET}
    IN  IF more = seen THEN seen ELSE DiscoveredFrom(n, more)

Discovered(n) == DiscoveredFrom(n, {{n.INITIAL_STATE}})

\* C28: the DFA convert_to_dfa returns for an NFA has one state for each
\* state set reachable from {initial}: its states are the labels '{' + sorted
\* state labels joined by commas + '}' of these sets ('{}' for the empty
\* set), different sets have different labels, and there are as many states
\* as sets.
C28_OneToOne ==
    (last.op = "convert_to_dfa" /\ last.raised = "none") =>
        /\ dfa.fsm.STATES = {collapse_state(S) : S \in Discovered(dfa.of)}
        /\ collapse_state({}) = << "{", "}" >>
        /\ \A S \in Discovered(dfa.of), T \in Discovered(dfa.of) :
              S # T => collapse_state(S) # collapse_state(T)
        /\ Cardinality(dfa.fsm.STATES) = Cardinality(Discovered(dfa.of))

\* no entry of seq occurs twice in it
NoRepeat(seq) == \A i \in DOMAIN seq, j \in DOMAIN seq : i # j => seq[i] # seq[j]

RECURSIVE Pow2(_)
Pow2(n) == IF n = 0 THEN 1 ELSE 2 * Pow2(n - 1)

\* what the loops may have done so far
WorkBounded ==
    /\ NoRepeat(parser.pushed)
    /\ parser.passes <= Len(parser.pushed)
    /\ IF parser.loop = "convert_to_dfa"
       THEN /\ Len(parser.pushed) <= Pow2(Cardinality(parser.fsm.STATES))
            /\ {parser.pushed[k] : k \in DOMAIN parser.pushed} = DOMAIN parser.mapping
       ELSE /\ Len(parser.pushed) <= Cardinality(parser.fsm.STATES)
            /\ {parser.pushed[k] : k \in DOMAIN parser.pushed} = parser.closure

\* C29: on every valid automaton both worklist loops end; convert_to_dfa
\* pushes each state set at most once and makes at most 2^|states| passes,
\* and _eps_closure adds and pushes each state at most once, also when the
\* epsilon relation has a cycle.
C29_Worklists ==
    /\ []WorkBounded
    /\ <>(parser.status = "done")

\* _eps_closure returned on an EpsNFA with an epsilon cycle through the states
\* it was given
C29_Witness ==
    /\ session = "worklist"
    /\ parser.status = "done"
    /\ parser.loop = "_eps_closure"
    /\ Cyclic(parser.fsm)
    /\ Len(parser.pushed) >= 2
    /\ parser.passes >= 2

\* what the calls have returned so far: next() the first tokens of the
\* stream in order, the last peek() the token after them, and the iterator
\* has yielded at most one token more than next() returned
CursorInOrder ==
    /\ parser.returned = SubSeq(parser.stream, 1, Len(parser.returned))
    /\ parser.it <= Len(parser.returned) + 1
    /\ (last.op = "peek" /\ last.raised = "none")
          => last.out = parser.stream[Len(parser.returned) + 1]
    /\ last.raised # "none" => Len(parser.returned) = Len(parser.stream)

\* a call after a peek() returns the token the peek() returned
AfterPeek ==
    (last.op = "peek" /\ last.raised = "none")
        => last'.raised = "none" /\ last'.out = last.out

\* C30: under any order of peek() and next() calls on a Peekable over a token
\* stream, next() returns the tokens of the stream in order, each once; a
\* peek() returns the token the next call of next() returns, and so does a
\* repeated peek(); the iterator is never more than one token ahead of the
\* tokens next() returned; a call raises StopIteration only when next() has
\* returned the whole stream.
C30_Peekable ==
    /\ [](session = "peekable" => CursorInOrder)
    /\ [][AfterPeek]_vars

\* peek() showed the second token after next() returned the first: the
\* iterator is one token ahead
C30_Witness ==
    /\ session = "peekable"
    /\ last.op = "peek"
    /\ last.raised = "none"
    /\ Len(parser.returned) = 1
    /\ parser.peeked = Some(parser.stream[2])
    /\ parser.stream[2] # parser.stream[1]
    /\ parser.it = 2

====
